---- MODULE Spec2Model ----
(***************************************************************************)
(* x-network: the event-driven state reconciler.                           *)
(*                                                                         *)
(* The module models the State Store (internal/state), the supplicant      *)
(* client and its credential agent (internal/iwd), the bus facade          *)
(* (internal/dbus) and the kernel event watcher (internal/netlink).        *)
(* Each component has its own specification over the shared variables:     *)
(*   SpecStore    Manager.Update / Get / SetOnChange with concurrent tasks *)
(*   SpecConnect  Client.Connect and its generation counter                *)
(*   SpecAgent    the pending-credential map of the Agent                  *)
(*   SpecIwd      supplicant lifecycle, station signals, network lists     *)
(*   SpecUsb      link/address events and the USB fallback task            *)
(*   SpecSignal   the dBm-to-percent scale over every int16                *)
(*   SpecStartup  NewClient's init attempt beside the lifecycle goroutine  *)
(*   SpecRestart  the supplicant exits and starts again (with fairness)    *)
(*   SpecAbsent   the facade's Wi-Fi methods with no supplicant on the bus *)
(*   SpecFacade   connect requests, the association, the Station signals   *)
(*   SpecTether   SpecUsb with the fallback's starts counted                *)
(*   SpecCredential  one Client.Connect over every argument combination    *)
(*   SpecWatcher  the Watcher's startup and any sequence of link messages  *)
(*   SpecAddress  the Watcher's address messages and the station's reports *)
(*   SpecTraffic  the traffic sampler (SpecTrafficLive: with its ticker)    *)
(*   SpecScan     one call of Client.Scan (SpecScanLive: scheduled, timed)  *)
(*   SpecLock     the store's lock while mutators make calls of their own   *)
(*   SpecSubscribe  the property goroutines across restarts of the supplicant *)
(*   SpecSwitch   a connect request while the station is connected elsewhere *)
(*   SpecVanish   signals and client calls after the supplicant disappeared  *)
(*   SpecSaved    the saved set against the supplicant's known networks      *)
(*   SpecCounters the sampler beside a tethered USB interface, counters reset *)
(***************************************************************************)
EXTENDS Integers, Sequences, FiniteSets, TLC

VARIABLES
    st,           \* Manager.state: the snapshot
    onChange,     \* Manager.onChange is set (non-nil)
    mu,           \* Manager.mu: 0 when free, else the task holding the write lock
    upc,          \* per task: position inside Manager.Update
    ucopy,        \* per task: the local stateCopy of Manager.Update
    ucb,          \* per task: the local onChange of Manager.Update
    useq,         \* per task: number of the Update call it is running (history)
    updates,      \* history: per Update call, the state right after its mutator
    delivered,    \* history: the snapshots handed to the callback, in order
    lastGet,      \* the value returned by the last Manager.Get
    initialized,  \* Client.initialized
    stationPath,  \* Client.stationPath
    devicePath,   \* Client.devicePath
    agent,        \* Client.agent is set (non-nil)
    iwdOwner,     \* owner of net.connman.iwd as of the last NameOwnerChanged handled
    propSubs,     \* number of property-signal goroutines started by subscribeSignals
    tasks,        \* detached goroutines (fetches, DHCP, release) that have not run yet
    lifecycleUpdates, \* history: Update calls made by the last lifecycle handler
    connectID,    \* Client.connectID
    calls,        \* per Connect call of the facade: its arguments, locals and position
    pending,      \* Agent.pending: network path -> PendingCredential
    now,          \* the clock read by time.Now / time.Since, in seconds
    agentLog,     \* history: the last call on the Agent, the map before it and its reply
    nStored,      \* history: per path, the number of SetPending calls
    nReturned,    \* history: per path, the number of passwords RequestPassphrase returned
    fallbacks,    \* the tryUsbFallback goroutines in flight
    usbLink,      \* the kernel's USB network link: presence, carrier, address, route
    nlq,           \* netlink messages sent by the kernel, not yet handled by the Watcher
    startup,      \* position of NewClient's own maybeInitIWD attempt
    subsAtAppear,  \* history: propSubs when the owner last changed
    supp,         \* the supplicant process: phase, instance number, known networks on disk
    lifeq,        \* lifecycle signals sent to the client, not yet handled
    agentReg,      \* history: the supplicant instance that last accepted RegisterAgent
    svc,          \* per facade Connect / ConnectSaved call: its goroutine's position and arguments
    methodReply,  \* history: the reply of the last facade method
    station,      \* the supplicant's Station: State and ConnectedNetwork
    sigq,         \* PropertiesChanged signals of the Station, not yet handled
    assoc,         \* per Connect call: how far the supplicant is with its association
    nFallback,    \* history: number of tryUsbFallback goroutines started
    nDhcp,        \* history: number of runDHCPOnInterface calls of the Watcher
    nBringUp,     \* history: number of bringUpInterface goroutines started
    wpc,           \* position of Watcher.Run: "start" before fetchInterfaces, then "run"
    rx,           \* the kernel's rx_bytes of the sampled interface
    tx,           \* the kernel's tx_bytes of the sampled interface
    lastRx,       \* Monitor.lastRx
    lastTx,       \* Monitor.lastTx
    idleEmitted,  \* Monitor.idleEmitted
    quiet,        \* the traffic on the interface has died down for good
    sampleLog,     \* history: the path the last sample took, its deltas, the updates before it
    scan,          \* Client.Scan in progress: its position, sigChan, scanDone, the listener, the reads
    lk,            \* the Update of a mutator that makes calls: its position and the call it waits for
    subq,         \* per subscription of subscribeSignals: the signals on its channel
    sent,         \* history: number of Station signals the supplicant has sent
    applied       \* history: per signal sent, how many times handleStationChange ran for it

storeVars == <<onChange, mu, upc, ucopy, ucb, useq, updates, delivered, lastGet>>
clientVars == <<initialized, stationPath, devicePath, agent>>
iwdVars == <<iwdOwner, propSubs, tasks, lifecycleUpdates>>
connectVars == <<connectID, calls>>
agentVars == <<pending, now, agentLog, nStored, nReturned>>
bootVars == <<startup, subsAtAppear, agentReg>>
suppVars == <<supp, lifeq>>
facadeVars == <<svc, methodReply, station, sigq, assoc>>
spawnVars == <<nFallback, nDhcp, nBringUp, wpc>>
trafficVars == <<rx, tx, lastRx, lastTx, idleEmitted, quiet, sampleLog>>
scanVars == <<scan>>
lockVars == <<lk>>
subVars == <<subq, sent, applied>>
usbVars == <<fallbacks, usbLink, nlq>>

vars == <<st, storeVars, clientVars, iwdVars, connectVars, agentVars, usbVars, bootVars, suppVars, facadeVars, spawnVars, trafficVars, scanVars, lockVars, subVars>>

\* what the actions of one component leave alone
exceptStore == <<clientVars, iwdVars, connectVars, agentVars, usbVars, bootVars, suppVars, facadeVars, spawnVars, trafficVars, scanVars, lockVars, subVars>>
exceptAgent == <<st, storeVars, subVars, lockVars, scanVars, trafficVars, spawnVars, facadeVars, suppVars, bootVars, clientVars, iwdVars, connectVars, usbVars>>
exceptConnect == <<storeVars, subVars, lockVars, scanVars, trafficVars, spawnVars, facadeVars, suppVars, bootVars, clientVars, iwdVars, usbVars>>
exceptIwd == <<storeVars, subVars, lockVars, scanVars, trafficVars, spawnVars, facadeVars, suppVars, bootVars, connectVars, usbVars>>
exceptUsb == <<storeVars, subVars, lockVars, scanVars, trafficVars, spawnVars, facadeVars, suppVars, bootVars, clientVars, iwdVars, connectVars, agentVars>>
exceptUsbSpawn == <<storeVars, subVars, lockVars, scanVars, trafficVars, facadeVars, suppVars, bootVars, clientVars, iwdVars, connectVars, agentVars>>
exceptStoreLock == <<clientVars, iwdVars, connectVars, agentVars, usbVars, bootVars, suppVars, facadeVars, spawnVars, trafficVars, scanVars, subVars>>
exceptScan == <<storeVars, subVars, lockVars, trafficVars, clientVars, iwdVars, connectVars, agentVars, usbVars, bootVars, suppVars, facadeVars, spawnVars>>
exceptTraffic == <<storeVars, subVars, lockVars, scanVars, clientVars, iwdVars, connectVars, agentVars, usbVars, bootVars, suppVars, facadeVars, spawnVars>>

-----------------------------------------------------------------------------
(* Bounds of the model *)

\* concurrent tasks calling Manager.Update
MaxTasks == 2
\* Update calls in one behaviour of SpecStore
MaxUpdates == 3
\* Connect calls in one behaviour of SpecConnect
MaxCalls == 2
\* SetPending calls in one behaviour of SpecAgent
MaxStores == 2
\* the clock stops here
MaxTime == 47
\* successful initializations of the client in one behaviour of SpecIwd
MaxSubs == 2
\* netlink messages waiting for the Watcher
MaxQueue == 2
\* goroutines of one kind counted in one behaviour
MaxStarts == 2
\* Station signals the supplicant sends in one behaviour of SpecSubscribe
MaxSignals == 2
\* the byte counters wrap here (2^64 in the code)
CounterModulus == 256

Tasks == 1..MaxTasks
Calls == 1..MaxCalls
TickSteps == {15, 16}                   \* seconds that pass between two calls
NetPaths == {"/net/A", "/net/B"}        \* the supplicant's network objects
Passwords == {"secret", "hunter2"}

-----------------------------------------------------------------------------
(* internal/state/state.go *)

StateDisconnected == "disconnected"
StateConnecting == "connecting"
StateObtaining == "obtaining"
StateConnected == "connected"
StateFailed == "failed"

\* NewManager: the zero State with ConnectionState = disconnected
NewManager ==
    [ WifiEnabled |-> FALSE, WifiScanning |-> FALSE,
      ConnectionState |-> StateDisconnected,
      ActiveSSID |-> "", ConnectingSSID |-> "", ActiveSecurity |-> "",
      SignalRSSI |-> 0, SignalStrength |-> 0, Frequency |-> 0,
      InterfaceName |-> "", MacAddress |-> "", IpAddress |-> "", Gateway |-> "",
      TrafficIn |-> 0, TrafficOut |-> 0,
      Networks |-> << >>, SavedNetworks |-> << >>,
      AirplaneMode |-> FALSE, CaptivePortalDetected |-> FALSE,
      HotspotActive |-> FALSE, HotspotSSID |-> "",
      ConnectionType |-> "",
      UsbInterfaceDetected |-> FALSE, UsbTetheringAvailable |-> FALSE,
      UsbTetheringConnected |-> FALSE, UsbInterfaceName |-> "",
      UsbInterfaceIndex |-> 0,
      LastError |-> "" ]

\* A scale without the clamp at -50 dBm
DBmToPercentNoUpperClamp(dBm) ==
    IF dBm <= -100 THEN 0 ELSE (2 * (dBm + 100)) % 256

\* DBmToPercent: linear scale, -100 dBm = 0 %, -50 dBm = 100 %
DBmToPercent(dBm) ==
    IF dBm <= -100 THEN 0
    ELSE IF dBm >= -50 THEN 100
    ELSE (2 * (dBm + 100)) % 256

\* the values of an int16
Int16 == -32768..32767

\* st.SignalRSSI = rssiDBm; st.SignalStrength = DBmToPercent(rssiDBm)
MeasureSignal ==
    /\ st' = [st EXCEPT !.SignalStrength = DBmToPercent(st.SignalRSSI)]
    /\ UNCHANGED <<storeVars, subVars, lockVars, scanVars, trafficVars, spawnVars, facadeVars, suppVars, bootVars, clientVars, iwdVars, connectVars, agentVars, usbVars>>

-----------------------------------------------------------------------------
(* Mutators handed to Manager.Update by the tasks of SpecStore *)

\* Service.SetAirplaneMode: func(st) { st.AirplaneMode = enabled }
MutAirplaneMode(s, enabled) == [s EXCEPT !.AirplaneMode = enabled]

\* Client.handleDeviceChange: func(st) { if "Powered" in props { st.WifiEnabled = v } }
\* props is a record with the optional key Powered
MutDeviceChange(s, props) ==
    IF "Powered" \in DOMAIN props THEN [s EXCEPT !.WifiEnabled = props.Powered] ELSE s

DeviceChangeProps == {[Powered |-> TRUE], [Mode |-> "station"]}

StoreMutators ==
    [kind : {"airplane"}, arg : BOOLEAN] \cup [kind : {"device"}, arg : DeviceChangeProps]

ApplyMutator(s, m) ==
    IF m.kind = "airplane" THEN MutAirplaneMode(s, m.arg) ELSE MutDeviceChange(s, m.arg)

-----------------------------------------------------------------------------
(* Manager: SetOnChange, Get, Update *)

\* SetOnChange: Lock; m.onChange = fn; Unlock
SetOnChange ==
    /\ mu = 0
    /\ ~onChange
    /\ onChange' = TRUE
    /\ UNCHANGED <<st, mu, upc, ucopy, ucb, useq, updates, delivered, lastGet>>
    /\ UNCHANGED exceptStore

\* FrequencyToBand
FrequencyToBand(freq) ==
    IF freq >= 2400 /\ freq < 2500 THEN "2.4GHz"
    ELSE IF freq >= 5000 /\ freq < 6000 THEN "5GHz"
    ELSE IF freq >= 6000 THEN "6GHz"
    ELSE "unknown"

\* networksToDBus: the five fields of NetworkDBus, in the order of the list
networksToDBus(networks) ==
    [ i \in 1..Len(networks) |->
        [ SSID |-> networks[i].SSID, Security |-> networks[i].Security,
          Signal |-> networks[i].Signal, Connected |-> networks[i].Connected,
          Frequency |-> networks[i].Frequency ] ]

\* emitPropertiesChanged: the map sent with PropertiesChanged for a snapshot
emitPropertiesChanged(s) ==
    [ WifiEnabled |-> s.WifiEnabled,
      WifiScanning |-> s.WifiScanning,
      ConnectionState |-> s.ConnectionState,
      ActiveSSID |-> s.ActiveSSID,
      SignalRSSI |-> s.SignalRSSI,
      SignalStrength |-> s.SignalStrength,
      IpAddress |-> s.IpAddress,
      Gateway |-> s.Gateway,
      TrafficIn |-> s.TrafficIn,
      TrafficOut |-> s.TrafficOut,
      AirplaneMode |-> s.AirplaneMode,
      CaptivePortalDetected |-> s.CaptivePortalDetected,
      HotspotActive |-> s.HotspotActive ]

\* Properties.GetAll on the service's interface: the map returned for a snapshot
GetAll(s) ==
    [ WifiEnabled |-> s.WifiEnabled,
      WifiScanning |-> s.WifiScanning,
      ConnectionState |-> s.ConnectionState,
      ActiveSSID |-> s.ActiveSSID,
      ConnectingSSID |-> s.ConnectingSSID,
      ActiveSecurity |-> s.ActiveSecurity,
      SignalRSSI |-> s.SignalRSSI,
      SignalStrength |-> s.SignalStrength,
      Frequency |-> s.Frequency,
      IpAddress |-> s.IpAddress,
      Gateway |-> s.Gateway,
      MacAddress |-> s.MacAddress,
      InterfaceName |-> s.InterfaceName,
      TrafficIn |-> s.TrafficIn,
      TrafficOut |-> s.TrafficOut,
      Networks |-> networksToDBus(s.Networks),
      SavedNetworks |-> s.SavedNetworks,
      AirplaneMode |-> s.AirplaneMode,
      CaptivePortalDetected |-> s.CaptivePortalDetected,
      HotspotActive |-> s.HotspotActive,
      ConnectionType |-> s.ConnectionType,
      Band |-> FrequencyToBand(s.Frequency),
      UsbInterfaceDetected |-> s.UsbInterfaceDetected,
      UsbTetheringAvailable |-> s.UsbTetheringAvailable,
      UsbTetheringConnected |-> s.UsbTetheringConnected,
      UsbInterfaceName |-> s.UsbInterfaceName,
      LastError |-> s.LastError ]

\* Get: RLock; return m.state (a copy); RUnlock
Get ==
    /\ mu = 0
    /\ lastGet' = st
    /\ UNCHANGED <<st, onChange, mu, upc, ucopy, ucb, useq, updates, delivered>>
    /\ UNCHANGED exceptStore

\* Update, first part: m.mu.Lock(); fn(&m.state)
UpdateLock(t, m) ==
    /\ upc[t] = "idle"
    /\ mu = 0
    /\ Len(updates) < MaxUpdates
    /\ mu' = t
    /\ st' = ApplyMutator(st, m)
    /\ updates' = Append(updates, [after |-> st', cb |-> "unread", returned |-> FALSE])
    /\ useq' = [useq EXCEPT ![t] = Len(updates) + 1]
    /\ upc' = [upc EXCEPT ![t] = "locked"]
    /\ UNCHANGED <<onChange, ucopy, ucb, delivered, lastGet>>
    /\ UNCHANGED exceptStore

\* Update, second part: stateCopy := m.state; onChange := m.onChange; m.mu.Unlock()
UpdateCopy(t) ==
    /\ upc[t] = "locked"
    /\ mu = t
    /\ ucopy' = [ucopy EXCEPT ![t] = st]
    /\ ucb' = [ucb EXCEPT ![t] = onChange]
    /\ mu' = 0
    /\ upc' = [upc EXCEPT ![t] = "unlocked"]
    /\ updates' = [updates EXCEPT ![useq[t]].cb = IF onChange THEN "set" ELSE "nil"]
    /\ UNCHANGED <<st, onChange, useq, delivered, lastGet>>
    /\ UNCHANGED exceptStore

\* A callback that hands the live state instead of the copy taken under the lock
UpdateCallbackLive(t) ==
    /\ upc[t] = "unlocked"
    /\ delivered' = IF ucb[t] THEN Append(delivered, [seq |-> useq[t], snap |-> st])
                    ELSE delivered
    /\ upc' = [upc EXCEPT ![t] = "idle"]
    /\ updates' = [updates EXCEPT ![useq[t]].returned = TRUE]
    /\ UNCHANGED <<st, onChange, mu, ucopy, ucb, useq, lastGet>>
    /\ UNCHANGED exceptStore

\* Update, last part: if onChange != nil { onChange(&stateCopy) }
UpdateCallback(t) ==
    /\ upc[t] = "unlocked"
    /\ delivered' = IF ucb[t] THEN Append(delivered, [seq |-> useq[t], snap |-> ucopy[t]])
                    ELSE delivered
    /\ upc' = [upc EXCEPT ![t] = "idle"]
    /\ updates' = [updates EXCEPT ![useq[t]].returned = TRUE]
    /\ UNCHANGED <<st, onChange, mu, ucopy, ucb, useq, lastGet>>
    /\ UNCHANGED exceptStore

InitStore ==
    /\ onChange = FALSE
    /\ mu = 0
    /\ upc = [t \in Tasks |-> "idle"]
    /\ ucopy = [t \in Tasks |-> NewManager]
    /\ ucb = [t \in Tasks |-> FALSE]
    /\ useq = [t \in Tasks |-> 0]
    /\ updates = << >>
    /\ delivered = << >>
    /\ lastGet = NewManager

-----------------------------------------------------------------------------
(* internal/iwd/agent.go: the credential Agent *)

CredentialTTL == 30
Cancelled == "net.connman.iwd.Agent.Error.Canceled"

EmptyMap == [x \in {} |-> x]
MapPut(m, k, v) == [x \in DOMAIN m \cup {k} |-> IF x = k THEN v ELSE m[x]]
MapDelete(m, k) == [x \in DOMAIN m \ {k} |-> m[x]]

NoReply == [password |-> "", error |-> ""]
NoLog ==
    [op |-> "", path |-> "", had |-> FALSE, password |-> "", age |-> 0,
     reply |-> NoReply, afterFlush |-> FALSE]

\* NewAgent: pending = make(map)
NewAgent == EmptyMap

\* SetPending: a.pending[network] = PendingCredential{password, time.Now()}
SetPendingMap(p, network, password, t) ==
    MapPut(p, network, [Password |-> password, Created |-> t])

\* ClearPending: delete(a.pending, network)
ClearPendingMap(p, network) == MapDelete(p, network)

\* A TTL test that also accepts expired credentials
CredentialExpiredNever(cred, t) == FALSE

\* time.Since(cred.Created) > CredentialTTL
CredentialExpired(cred, t) == t - cred.Created > CredentialTTL

\* RequestPassphrase: the (string, *dbus.Error) it returns
RequestPassphraseReply(p, network, t) ==
    IF network \notin DOMAIN p THEN [password |-> "", error |-> Cancelled]
    ELSE IF CredentialExpired(p[network], t) THEN [password |-> "", error |-> Cancelled]
    ELSE [password |-> p[network].Password, error |-> ""]

\* RequestPassphrase: the map it leaves (delete on expiry and after use)
RequestPassphraseMap(p, network, t) ==
    IF network \notin DOMAIN p THEN p ELSE MapDelete(p, network)

\* history of the last call: the entry of the map it found for its path, its
\* reply, and whether Cancel or Release ran with no SetPending since
LogEntry(op, network, reply) ==
    [op |-> op, path |-> network, had |-> network \in DOMAIN pending,
     password |-> IF network \in DOMAIN pending THEN pending[network].Password ELSE "",
     age |-> IF network \in DOMAIN pending THEN now - pending[network].Created ELSE 0,
     reply |-> reply,
     afterFlush |-> IF op = "SetPending" THEN FALSE ELSE agentLog.afterFlush]

SetPending(network, password) ==
    /\ agent
    /\ nStored["/net/A"] + nStored["/net/B"] < MaxStores
    /\ pending' = SetPendingMap(pending, network, password, now)
    /\ agentLog' = LogEntry("SetPending", network, NoReply)
    /\ nStored' = [nStored EXCEPT ![network] = @ + 1]
    /\ UNCHANGED <<now, nReturned>>
    /\ UNCHANGED exceptAgent

ClearPending(network) ==
    /\ agent
    /\ pending' = ClearPendingMap(pending, network)
    /\ agentLog' = LogEntry("ClearPending", network, NoReply)
    /\ UNCHANGED <<now, nStored, nReturned>>
    /\ UNCHANGED exceptAgent

OnRequestPassphrase(network) ==
    /\ agent
    /\ LET r == RequestPassphraseReply(pending, network, now) IN
        /\ pending' = RequestPassphraseMap(pending, network, now)
        /\ agentLog' = LogEntry("RequestPassphrase", network, r)
        /\ nReturned' = IF r.error = "" THEN [nReturned EXCEPT ![network] = @ + 1]
                        ELSE nReturned
    /\ UNCHANGED <<now, nStored>>
    /\ UNCHANGED <<st, storeVars, subVars, lockVars, scanVars, trafficVars, spawnVars, suppVars, bootVars, clientVars, iwdVars, connectVars, usbVars>>

\* the supplicant asks, whatever it does with the answer
RequestPassphrase(network) ==
    /\ OnRequestPassphrase(network)
    /\ UNCHANGED facadeVars

\* A Cancel that forgets only the first network path
CancelFirstOnly(reason) ==
    /\ agent
    /\ pending' = MapDelete(pending, "/net/A")
    /\ agentLog' = [NoLog EXCEPT !.op = "Cancel", !.afterFlush = TRUE]
    /\ UNCHANGED <<now, nStored, nReturned>>
    /\ UNCHANGED exceptAgent

\* Cancel(reason): a.pending = make(map)
Cancel(reason) ==
    /\ agent
    /\ pending' = EmptyMap
    /\ agentLog' = [NoLog EXCEPT !.op = "Cancel", !.afterFlush = TRUE]
    /\ UNCHANGED <<now, nStored, nReturned>>
    /\ UNCHANGED exceptAgent

\* Release(): a.pending = make(map)
Release ==
    /\ agent
    /\ pending' = EmptyMap
    /\ agentLog' = [NoLog EXCEPT !.op = "Release", !.afterFlush = TRUE]
    /\ UNCHANGED <<now, nStored, nReturned>>
    /\ UNCHANGED exceptAgent

\* time passes
Tick(d) ==
    /\ now + d <= MaxTime
    /\ now' = now + d
    /\ UNCHANGED <<pending, agentLog, nStored, nReturned>>
    /\ UNCHANGED exceptAgent

CancelReasons == {"out-of-range", "user-canceled", "timed-out", "shutdown"}

InitAgent ==
    /\ pending = NewAgent
    /\ now = 0
    /\ agentLog = NoLog
    /\ nStored = [p \in NetPaths |-> 0]
    /\ nReturned = [p \in NetPaths |-> 0]

NextAgent ==
    \/ \E n \in NetPaths, pw \in Passwords : SetPending(n, pw)
    \/ \E n \in NetPaths : ClearPending(n)
    \/ \E n \in NetPaths : RequestPassphrase(n)
    \/ \E r \in CancelReasons : Cancel(r)
    \/ Release
    \/ \E d \in TickSteps : Tick(d)

-----------------------------------------------------------------------------
(* internal/iwd/client.go: what the client reads from the supplicant *)

\* The supplicant's Network objects: the Name and Type properties of each path
SSIDOf(path) == IF path = "/net/A" THEN "A" ELSE IF path = "/net/E" THEN "E" ELSE "B"
TypeOf(path) == IF path = "/net/A" THEN "psk" ELSE IF path = "/net/E" THEN "8021x" ELSE "open"

\* GetOrderedNetworks replies: (path, rssi) pairs, rssi in 1/100 dBm
OrderedReplies ==
    { << >>,
      << [Path |-> "/net/A", RSSI |-> -4000] >>,
      << [Path |-> "/net/A", RSSI |-> -4000], [Path |-> "/net/B", RSSI |-> -7550] >> }

\* What the supplicant answers during one handler: whether GetOrderedNetworks
\* succeeds and with what, which network it reports Connected, which have a
\* KnownNetwork, and for which paths Properties.GetAll fails.
IwdViews ==
    [ ok : BOOLEAN, ordered : OrderedReplies, connected : NetPaths \cup {""},
      known : {{}, {"/net/A"}}, unreadable : {{}, {"/net/B"}} ]

\* Go's integer division truncates toward zero
GoDiv(a, b) == IF a >= 0 THEN a \div b ELSE -((-a) \div b)

\* getNetworkInfo: nil when GetAll fails, else the Network record
getNetworkInfo(path, rssi, view) ==
    IF path \in view.unreadable
    THEN [ok |-> FALSE, net |-> [SSID |-> ""]]
    ELSE [ok |-> TRUE,
          net |-> [ SSID |-> SSIDOf(path), Security |-> TypeOf(path),
                    SignalDBm |-> GoDiv(rssi, 100),
                    Signal |-> DBmToPercent(GoDiv(rssi, 100)),
                    Connected |-> (view.connected = path),
                    Saved |-> (path \in view.known),
                    Frequency |-> 0, ObjectPath |-> path ]]

\* fetchNetworksFromIWD: if net.SSID == activeSSID && activeSSID != "" { net.Connected = true }
OverrideConnected(net, activeSSID) ==
    IF net.SSID = activeSSID /\ activeSSID # "" THEN [net EXCEPT !.Connected = TRUE] ELSE net

\* fetchNetworksFromIWD: nil (ok = FALSE) when the call fails, else the list
fetchNetworksFromIWD(view, activeSSID) ==
    IF ~view.ok THEN [ok |-> FALSE, list |-> << >>]
    ELSE LET infos == [i \in 1..Len(view.ordered) |->
                          getNetworkInfo(view.ordered[i].Path, view.ordered[i].RSSI, view)]
             kept == SelectSeq(infos, LAMBDA x : x.ok)
         IN [ok |-> TRUE,
             list |-> [i \in 1..Len(kept) |-> OverrideConnected(kept[i].net, activeSSID)]]

\* fetchActiveSignal: SignalRSSI and SignalStrength of the active path, when listed
fetchActiveSignal(s, activePath, view) ==
    IF ~view.ok THEN s
    ELSE LET hits == SelectSeq(view.ordered, LAMBDA n : n.Path = activePath) IN
         IF Len(hits) = 0 THEN s
         ELSE [s EXCEPT !.SignalRSSI = GoDiv(hits[1].RSSI, 100),
                        !.SignalStrength = DBmToPercent(GoDiv(hits[1].RSSI, 100))]

\* fetchNetworkDetails: ActiveSSID, ActiveSecurity, then the signal
fetchNetworkDetails(s, path, view) ==
    IF path = "" \/ path \in view.unreadable THEN s
    ELSE fetchActiveSignal([s EXCEPT !.ActiveSSID = SSIDOf(path),
                                     !.ActiveSecurity = TypeOf(path)], path, view)

-----------------------------------------------------------------------------
(* internal/iwd/client.go: station and device property changes *)

Has(props, key) == key \in DOMAIN props

\* handleStationChange's State part without the connecting -> disconnected rule
StationStateMutatorNoAuthFailure(s, props) ==
    IF ~Has(props, "State") THEN s
    ELSE CASE props.State = "disconnected" ->
                [s EXCEPT !.ConnectionState = StateDisconnected,
                          !.ActiveSSID = "", !.ConnectingSSID = ""]
           [] props.State = "connecting" ->
                [s EXCEPT !.ConnectionState = StateConnecting, !.LastError = ""]
           [] props.State \in {"connected", "roaming"} ->
                [s EXCEPT !.ConnectionState = StateConnected]
           [] OTHER -> s

\* the mutator of handleStationChange, State part
StationStateMutator(s, props) ==
    IF ~Has(props, "State") THEN s
    ELSE CASE props.State = "disconnected" ->
                [s EXCEPT !.ConnectionState =
                              IF s.ConnectionState = StateConnecting THEN StateFailed
                              ELSE StateDisconnected,
                          !.ActiveSSID = "",
                          !.ConnectingSSID = "",
                          !.LastError =
                              IF s.ConnectionState = StateConnecting
                              THEN "Authentication failed" ELSE @]
           [] props.State = "connecting" ->
                [s EXCEPT !.ConnectionState = StateConnecting, !.LastError = ""]
           [] props.State = "connected" ->
                [s EXCEPT !.ConnectionState = StateConnected,
                          !.ConnectingSSID = "", !.LastError = ""]
           [] props.State = "roaming" ->
                [s EXCEPT !.ConnectionState = StateConnected]
           [] OTHER -> s

\* the mutator of handleStationChange
StationChangeMutator(s, props, view) ==
    LET s1 == StationStateMutator(s, props)
        s2 == IF Has(props, "Scanning") THEN [s1 EXCEPT !.WifiScanning = props.Scanning]
              ELSE s1
    IN IF Has(props, "ConnectedNetwork")
       THEN fetchNetworkDetails(s2, props.ConnectedNetwork, view) ELSE s2

\* A handler that starts the fallback on every disconnected report
StartsUsbFallbackAfterAnyState(s, props) ==
    /\ Has(props, "State")
    /\ props.State = "disconnected"
    /\ s.UsbTetheringAvailable
    /\ s.UsbInterfaceName # ""

\* handleStationChange starts tryUsbFallback: disconnected after connected, USB ready
StartsUsbFallback(s, props) ==
    /\ Has(props, "State")
    /\ props.State = "disconnected"
    /\ s.ConnectionState = StateConnected
    /\ s.UsbTetheringAvailable
    /\ s.UsbInterfaceName # ""

\* handleStationChange: the Update, the fetch after a finished scan, the detached
\* refresh after "connected"
ApplyStationChange(props, view) ==
    /\ LET s1 == StationChangeMutator(st, props, view)
           scanCompleted == Has(props, "Scanning") /\ ~props.Scanning
           nets == fetchNetworksFromIWD(view, s1.ActiveSSID)
       IN /\ st' = IF scanCompleted /\ nets.ok THEN [s1 EXCEPT !.Networks = nets.list]
                   ELSE s1
    /\ fallbacks' = IF StartsUsbFallback(st, props)
                    THEN fallbacks \cup {[iface |-> st.UsbInterfaceName, pc |-> "up"]}
                    ELSE fallbacks
    /\ tasks' = IF Has(props, "State") /\ props.State = "connected"
                THEN tasks \cup {"refresh"} ELSE tasks
    /\ UNCHANGED <<iwdOwner, propSubs, lifecycleUpdates, usbLink, nlq>>
    /\ UNCHANGED <<storeVars, lockVars, scanVars, trafficVars, suppVars, bootVars, clientVars, connectVars, agentVars>>

\* a Station signal of the running supplicant, handled by the goroutine of
\* subscribeSignals as soon as it is sent
OnStationChange(props, view) ==
    /\ propSubs > 0
    /\ iwdOwner # ""
    /\ ApplyStationChange(props, view)

\* the signal arrives and is handled at once
HandleStationChange(props, view) ==
    /\ OnStationChange(props, view)
    /\ UNCHANGED <<facadeVars, spawnVars, subVars>>

\* the same, counting the tryUsbFallback goroutines it starts
HandleStationChangeCounted(props, view) ==
    /\ nFallback < MaxStarts
    /\ OnStationChange(props, view)
    /\ nFallback' = IF StartsUsbFallback(st, props) THEN nFallback + 1 ELSE nFallback
    /\ UNCHANGED <<facadeVars, nDhcp, nBringUp, wpc, subVars>>

\* handleDeviceChange: Powered -> WifiEnabled
HandleDeviceChange(props) ==
    /\ propSubs > 0
    /\ iwdOwner # ""
    /\ st' = MutDeviceChange(st, props)
    /\ UNCHANGED <<iwdOwner, propSubs, tasks, lifecycleUpdates>>
    /\ UNCHANGED <<storeVars, subVars, lockVars, scanVars, trafficVars, spawnVars, facadeVars, suppVars, bootVars, clientVars, connectVars, agentVars, usbVars>>

-----------------------------------------------------------------------------
(* internal/iwd/client.go: the supplicant's lifecycle *)

IwdPath == "/net/connman/iwd/0/4"

NoProps == [x \in {} |-> x]

\* GetManagedObjects replies as findDevice reads them: the call fails; no
\* object yet; a Device without Station; a Station (with its Device) idle; a
\* Station connected to /net/B, which is a known network
ManagedObjects ==
    { [ok |-> FALSE, hasStation |-> FALSE, device |-> NoProps, station |-> NoProps,
       known |-> << >>],
      [ok |-> TRUE, hasStation |-> FALSE, device |-> NoProps, station |-> NoProps,
       known |-> << >>],
      [ok |-> TRUE, hasStation |-> FALSE,
       device |-> [Name |-> "wlan0", Address |-> "aa:bb", Powered |-> FALSE],
       station |-> NoProps, known |-> << >>],
      [ok |-> TRUE, hasStation |-> TRUE,
       device |-> [Name |-> "wlan0", Address |-> "aa:bb", Powered |-> TRUE],
       station |-> [State |-> "disconnected", Scanning |-> FALSE], known |-> << >>],
      [ok |-> TRUE, hasStation |-> TRUE,
       device |-> [Name |-> "wlan0", Address |-> "aa:bb", Powered |-> TRUE],
       station |-> [State |-> "connected", Scanning |-> FALSE,
                    ConnectedNetwork |-> "/net/B"],
       known |-> <<"B">>] }

\* the mutator of updateDeviceProps
DevicePropsMutator(s, props) ==
    LET s1 == IF Has(props, "Name") THEN [s EXCEPT !.InterfaceName = props.Name] ELSE s
        s2 == IF Has(props, "Address") THEN [s1 EXCEPT !.MacAddress = props.Address] ELSE s1
    IN IF Has(props, "Powered") THEN [s2 EXCEPT !.WifiEnabled = props.Powered] ELSE s2

\* the mutator of updateStationState
UpdateStationStateMutator(s, props, view) ==
    LET s1 == IF ~Has(props, "State") THEN s
              ELSE CASE props.State = "disconnected" ->
                            [s EXCEPT !.ConnectionState = StateDisconnected]
                     [] props.State = "connecting" ->
                            [s EXCEPT !.ConnectionState = StateConnecting]
                     [] props.State \in {"connected", "roaming"} ->
                            [s EXCEPT !.ConnectionState = StateConnected]
                     [] OTHER -> s
        s2 == IF Has(props, "Scanning") THEN [s1 EXCEPT !.WifiScanning = props.Scanning]
              ELSE s1
    IN IF Has(props, "ConnectedNetwork") /\ props.ConnectedNetwork # ""
       THEN fetchNetworkDetails(s2, props.ConnectedNetwork, view) ELSE s2

\* findDevice: the error it returns, the paths it leaves, the state after its
\* Update calls and their number
findDevice(s, objs, view) ==
    IF ~objs.ok
    THEN [err |-> TRUE, stationPath |-> stationPath, devicePath |-> devicePath,
          st |-> s, updates |-> 0]
    ELSE LET hasDevice == objs.device # NoProps
             s1 == IF hasDevice /\ (objs.hasStation \/ devicePath = "")
                   THEN DevicePropsMutator(s, objs.device) ELSE s
             n1 == IF hasDevice /\ (objs.hasStation \/ devicePath = "") THEN 1 ELSE 0
             s2 == IF objs.hasStation
                   THEN UpdateStationStateMutator(s1, objs.station, view) ELSE s1
             n2 == IF objs.hasStation THEN n1 + 1 ELSE n1
             sp == IF objs.hasStation THEN IwdPath ELSE stationPath
             dp == IF hasDevice /\ (objs.hasStation \/ devicePath = "")
                   THEN IwdPath ELSE devicePath
         IN IF sp = ""
            THEN [err |-> TRUE, stationPath |-> sp, devicePath |-> dp,
                  st |-> s2, updates |-> n2]
            ELSE [err |-> FALSE, stationPath |-> sp, devicePath |-> dp,
                  st |-> IF Len(objs.known) > 0
                         THEN [s2 EXCEPT !.SavedNetworks = objs.known] ELSE s2,
                  updates |-> IF Len(objs.known) > 0 THEN n2 + 1 ELSE n2]

\* maybeInitIWD past its check of c.initialized: findDevice, subscribeSignals, a
\* new Agent, initialized = true and the detached first fetch of the networks
initIWD(objs, view) ==
    LET r == findDevice(st, objs, view) IN
    /\ propSubs < MaxSubs
    /\ st' = r.st
    /\ stationPath' = r.stationPath
    /\ devicePath' = r.devicePath
    /\ lifecycleUpdates' = r.updates
    /\ IF r.err
       THEN UNCHANGED <<initialized, agent, agentReg, propSubs, tasks, pending>>
       ELSE /\ propSubs' = propSubs + 1
            /\ agent' = TRUE
            /\ agentReg' = supp.inst
            /\ pending' = NewAgent
            /\ initialized' = TRUE
            /\ tasks' = tasks \cup {"initfetch"}

\* maybeInitIWD as one step of the lifecycle goroutine
maybeInitIWD(objs, view) ==
    IF initialized
    THEN /\ lifecycleUpdates' = 0
         /\ UNCHANGED <<st, clientVars, agentReg, propSubs, tasks, pending>>
    ELSE initIWD(objs, view)

\* NewClient's own attempt, first step: maybeInitIWD reads c.initialized
StartupCheck ==
    /\ startup = "check"
    /\ startup' = IF initialized THEN "done" ELSE "find"
    /\ UNCHANGED <<st, subsAtAppear, agentReg>>
    /\ UNCHANGED <<storeVars, subVars, lockVars, scanVars, trafficVars, spawnVars, facadeVars, suppVars, clientVars, iwdVars, connectVars, agentVars, usbVars>>

\* NewClient's own attempt, second step: the bus calls of findDevice return and
\* the rest of maybeInitIWD runs; NewClient returns
StartupInit(objs, view) ==
    /\ startup = "find"
    /\ startup' = "done"
    /\ initIWD(objs, view)
    /\ UNCHANGED <<iwdOwner, subsAtAppear, now, agentLog, nStored, nReturned>>
    /\ UNCHANGED <<storeVars, subVars, lockVars, scanVars, trafficVars, spawnVars, facadeVars, suppVars, connectVars, usbVars>>

\* the lifecycle goroutine on NameOwnerChanged("net.connman.iwd", "", newOwner)
OnNameOwnerAppeared(objs, view) ==
    /\ iwdOwner = ""
    /\ iwdOwner' = ":1.5"
    /\ maybeInitIWD(objs, view)
    /\ subsAtAppear' = propSubs
    /\ UNCHANGED startup
    /\ UNCHANGED <<now, agentLog, nStored, nReturned>>
    /\ UNCHANGED <<storeVars, subVars, lockVars, scanVars, trafficVars, spawnVars, facadeVars, connectVars, usbVars>>

\* the lifecycle goroutine on InterfacesAdded carrying a Station interface
OnInterfacesAdded(objs, view) ==
    /\ iwdOwner # ""
    /\ maybeInitIWD(objs, view)
    /\ UNCHANGED <<iwdOwner, startup, subsAtAppear, now, agentLog, nStored, nReturned>>
    /\ UNCHANGED <<storeVars, subVars, lockVars, scanVars, trafficVars, spawnVars, facadeVars, connectVars, usbVars>>

\* the signal arrives and is handled at once, the bus answering objs
NameOwnerAppeared(objs, view) ==
    /\ OnNameOwnerAppeared(objs, view)
    /\ UNCHANGED suppVars

\* the Station is exported, the signal handled at once
InterfacesAdded(objs, view) ==
    /\ objs.hasStation
    /\ OnInterfacesAdded(objs, view)
    /\ UNCHANGED suppVars

\* A disappearance that keeps the active SSID
DisappearMutatorKeepsSSID(s) ==
    [s EXCEPT !.WifiEnabled = FALSE, !.WifiScanning = FALSE,
              !.ConnectionState = StateDisconnected, !.SignalStrength = 0]

\* the mutator of handleIWDDisappear
DisappearMutator(s) ==
    [s EXCEPT !.WifiEnabled = FALSE, !.WifiScanning = FALSE,
              !.ConnectionState = StateDisconnected, !.ActiveSSID = "",
              !.SignalStrength = 0]

\* A disappearance that leaves the client initialized
handleIWDDisappearKeepsInitialized ==
    /\ st' = DisappearMutator(st)
    /\ lifecycleUpdates' = 1
    /\ UNCHANGED <<initialized, devicePath, stationPath, agent, agentReg, propSubs, tasks>>

\* handleIWDDisappear
handleIWDDisappear ==
    /\ initialized' = FALSE
    /\ devicePath' = ""
    /\ stationPath' = ""
    /\ st' = DisappearMutator(st)
    /\ lifecycleUpdates' = 1
    /\ UNCHANGED <<agent, agentReg, propSubs, tasks>>

\* the lifecycle goroutine on NameOwnerChanged("net.connman.iwd", oldOwner, "")
OnNameOwnerVanished ==
    /\ iwdOwner # ""
    /\ iwdOwner' = ""
    /\ handleIWDDisappear
    /\ subsAtAppear' = propSubs
    /\ UNCHANGED startup
    /\ UNCHANGED <<storeVars, subVars, lockVars, scanVars, trafficVars, spawnVars, facadeVars, connectVars, agentVars, usbVars>>

\* the signal arrives and is handled at once
NameOwnerVanished ==
    /\ OnNameOwnerVanished
    /\ UNCHANGED suppVars

\* GetManagedObjects as the supplicant answers it in its present phase
SuppObjects ==
    { o \in ManagedObjects :
        CASE supp.phase = "absent" -> ~o.ok
          [] supp.phase = "named" -> o.ok /\ ~o.hasStation
          [] OTHER -> o.hasStation /\ o.known = supp.known }

\* the station's answers in the supplicant's present phase: the first instance has
\* seen /net/A, a later one /net/A and /net/B
SuppView ==
    LET ready == supp.phase = "ready" IN
    [ ok |-> ready,
      ordered |-> IF ~ready THEN << >>
                  ELSE IF supp.inst = 1
                       THEN << [Path |-> "/net/A", RSSI |-> -4000] >>
                       ELSE << [Path |-> "/net/A", RSSI |-> -4000],
                               [Path |-> "/net/B", RSSI |-> -7550] >>,
      connected |-> IF ready /\ supp.known # << >> THEN "/net/B" ELSE "",
      known |-> IF supp.known # << >> THEN {"/net/B"} ELSE {},
      unreadable |-> {} ]

\* the supplicant process exits: the bus sends NameOwnerChanged(name, owner, "")
SuppExit ==
    /\ supp.phase # "absent"
    /\ supp.inst < MaxSubs
    /\ supp' = [supp EXCEPT !.phase = "absent"]
    /\ lifeq' = Append(lifeq, "vanished")
    /\ UNCHANGED <<st, storeVars, subVars, lockVars, scanVars, trafficVars, spawnVars, facadeVars, clientVars, iwdVars, connectVars, agentVars, usbVars,
                   bootVars>>

\* a new supplicant process takes the name: NameOwnerChanged(name, "", owner)
SuppStart ==
    /\ supp.phase = "absent"
    /\ supp' = [supp EXCEPT !.phase = "named", !.inst = @ + 1]
    /\ lifeq' = Append(lifeq, "appeared")
    /\ UNCHANGED <<st, storeVars, subVars, lockVars, scanVars, trafficVars, spawnVars, facadeVars, clientVars, iwdVars, connectVars, agentVars, usbVars,
                   bootVars>>

\* the supplicant exports its Station: InterfacesAdded
SuppStation ==
    /\ supp.phase = "named"
    /\ supp' = [supp EXCEPT !.phase = "ready"]
    /\ lifeq' = Append(lifeq, "station")
    /\ UNCHANGED <<st, storeVars, subVars, lockVars, scanVars, trafficVars, spawnVars, facadeVars, clientVars, iwdVars, connectVars, agentVars, usbVars,
                   bootVars>>

\* the lifecycle goroutine takes the next signal from its channel
LifecycleSignal(objs, view) ==
    /\ lifeq # << >>
    /\ lifeq' = Tail(lifeq)
    /\ UNCHANGED supp
    /\ CASE Head(lifeq) = "vanished" -> OnNameOwnerVanished
         [] Head(lifeq) = "appeared" -> OnNameOwnerAppeared(objs, view)
         [] OTHER -> OnInterfacesAdded(objs, view)

\* the goroutine of maybeInitIWD: the Networks list 100 ms after the init
InitFetch(view) ==
    /\ "initfetch" \in tasks
    /\ tasks' = tasks \ {"initfetch"}
    /\ LET nets == fetchNetworksFromIWD(view, st.ActiveSSID) IN
       st' = IF nets.ok THEN [st EXCEPT !.Networks = nets.list] ELSE st
    /\ UNCHANGED <<iwdOwner, propSubs, lifecycleUpdates>>
    /\ UNCHANGED <<storeVars, subVars, lockVars, scanVars, trafficVars, spawnVars, facadeVars, suppVars, bootVars, clientVars, connectVars, agentVars, usbVars>>

\* the mutator of refreshKnownNetworks
RefreshKnownMutator(s, objs) ==
    IF objs.ok /\ Len(objs.known) > 0 THEN [s EXCEPT !.SavedNetworks = objs.known] ELSE s

\* the goroutine handleStationChange starts on "connected": refreshKnownNetworks,
\* then the Networks list
RefreshAfterConnected(objs, view) ==
    /\ "refresh" \in tasks
    /\ tasks' = tasks \ {"refresh"}
    /\ LET s1 == RefreshKnownMutator(st, objs)
           nets == fetchNetworksFromIWD(view, s1.ActiveSSID)
       IN st' = IF nets.ok THEN [s1 EXCEPT !.Networks = nets.list] ELSE s1
    /\ UNCHANGED <<iwdOwner, propSubs, lifecycleUpdates>>
    /\ UNCHANGED <<storeVars, subVars, lockVars, scanVars, trafficVars, spawnVars, facadeVars, suppVars, bootVars, clientVars, connectVars, agentVars, usbVars>>

-----------------------------------------------------------------------------
(* internal/dbus/methods.go Service.Disconnect *)

\* the mutator of Service.Disconnect
DisconnectMutator(s) ==
    [s EXCEPT !.ConnectionState = StateDisconnected, !.ActiveSSID = "",
              !.SignalRSSI = 0, !.SignalStrength = 0]

\* Service.Disconnect: nothing when Station.Disconnect fails
OnServiceDisconnect(err) ==
    /\ st' = IF err THEN st ELSE DisconnectMutator(st)
    /\ UNCHANGED <<storeVars, subVars, lockVars, scanVars, trafficVars, spawnVars, suppVars, bootVars, clientVars, iwdVars, connectVars, agentVars, usbVars>>

\* Service.Disconnect with the supplicant's answer as an input
ServiceDisconnect(err) ==
    /\ OnServiceDisconnect(err)
    /\ UNCHANGED facadeVars

-----------------------------------------------------------------------------
(* internal/iwd/client.go Client.Connect, as called by the goroutines of       *)
(* Service.Connect and Service.ConnectSaved (internal/dbus/methods.go)         *)

\* The arguments of Client.Connect.  ConnectSaved(ssid) calls
\* Connect(ssid, "", "", false).
ConnectArgs ==
    { [ssid |-> "A", password |-> "secret", security |-> "psk", hidden |-> FALSE],
      [ssid |-> "B", password |-> "secret", security |-> "psk", hidden |-> TRUE],
      [ssid |-> "B", password |-> "", security |-> "", hidden |-> FALSE] }

IdleCall ==
    [ pc |-> "idle", ssid |-> "", password |-> "", security |-> "",
      hidden |-> FALSE, myConnectID |-> 0, netPath |-> "",
      didSet |-> FALSE, cleared |-> FALSE ]

\* what stays of a call that returned: its generation and what it did to
\* ConnectingSSID
ReturnedCall(call, didClear) ==
    [IdleCall EXCEPT !.pc = "done", !.ssid = call.ssid,
                     !.myConnectID = call.myConnectID,
                     !.didSet = call.didSet, !.cleared = didClear]

\* Client.Connect: connectMu.Lock(); connectID++; myConnectID := connectID; Unlock()
ClientConnectBegin(c, a) ==
    /\ calls[c].pc = "idle"
    /\ connectID' = connectID + 1
    /\ calls' = [calls EXCEPT ![c] =
                    [IdleCall EXCEPT !.pc = "scan", !.ssid = a.ssid,
                                     !.password = a.password, !.security = a.security,
                                     !.hidden = a.hidden, !.myConnectID = connectID + 1]]
    /\ UNCHANGED <<st, storeVars, subVars, lockVars, scanVars, trafficVars, spawnVars, facadeVars, suppVars, bootVars, clientVars, iwdVars, agentVars, usbVars>>

\* a Connect call of some caller: the calls take their slots in order
ConnectBegin(c, a) ==
    /\ \A b \in Calls : b < c => calls[b].pc # "idle"
    /\ ClientConnectBegin(c, a)

\* Client.Scan as Connect sees it: an error of the Scan call, or the list of the
\* first fetch, or of the second one when the first is empty
ScanResult(scanErr, v1, v2, activeSSID) ==
    IF scanErr THEN [err |-> "scan failed", ok |-> FALSE, list |-> << >>]
    ELSE LET n1 == fetchNetworksFromIWD(v1, activeSSID)
             n2 == IF Len(n1.list) = 0 THEN fetchNetworksFromIWD(v2, activeSSID) ELSE n1
         IN [err |-> "", ok |-> n2.ok, list |-> n2.list]

\* Connect: the first network of the list with the SSID ("" when there is none)
ResolveNetwork(list, ssid) ==
    LET hits == SelectSeq(list, LAMBDA n : n.SSID = ssid) IN
    IF Len(hits) = 0 THEN [path |-> "", security |-> ""]
    ELSE [path |-> hits[1].ObjectPath, security |-> hits[1].Security]

\* A Connect that never hands a passphrase to the Agent
WantsPendingNever(password, security, networkSecurity) == FALSE

\* Connect: password != "" && (networkSecurity == "psk" || security == "psk" ||
\*          networkSecurity == "wpa2" || networkSecurity == "wpa3")
WantsPending(password, security, networkSecurity) ==
    /\ password # ""
    /\ \/ networkSecurity = "psk"
       \/ security = "psk"
       \/ networkSecurity = "wpa2"
       \/ networkSecurity = "wpa3"

\* Client.Connect from Scan() to SetPending; returns early when the scan fails
\* or the network is neither listed nor hidden
ConnectScan(c, scanErr, v1, v2) ==
    /\ calls[c].pc = "scan"
    /\ LET r == ScanResult(scanErr, v1, v2, st.ActiveSSID)
           net == ResolveNetwork(r.list, calls[c].ssid)
       IN IF r.err # ""
          THEN /\ calls' = [calls EXCEPT ![c] = ReturnedCall(calls[c], FALSE)]
               /\ UNCHANGED <<st, pending>>
          ELSE /\ st' = IF r.ok THEN [st EXCEPT !.Networks = r.list] ELSE st
               /\ IF net.path = "" /\ ~calls[c].hidden
                  THEN /\ calls' = [calls EXCEPT ![c] = ReturnedCall(calls[c], FALSE)]
                       /\ UNCHANGED pending
                  ELSE /\ calls' = [calls EXCEPT ![c].pc = "set", ![c].netPath = net.path]
                       /\ pending' =
                            IF WantsPending(calls[c].password, calls[c].security, net.security)
                               /\ agent
                            THEN SetPendingMap(pending, net.path, calls[c].password, now)
                            ELSE pending
    /\ UNCHANGED <<connectID, now, agentLog, nStored, nReturned>>
    /\ UNCHANGED <<storeVars, subVars, lockVars, scanVars, trafficVars, spawnVars, facadeVars, suppVars, bootVars, clientVars, iwdVars, usbVars>>

\* Client.Connect: Update(func(st) { st.ConnectingSSID = ssid })
ConnectSetSSID(c) ==
    /\ calls[c].pc = "set"
    /\ st' = [st EXCEPT !.ConnectingSSID = calls[c].ssid]
    /\ calls' = [calls EXCEPT ![c].pc = "assoc", ![c].didSet = TRUE]
    /\ UNCHANGED <<connectID, storeVars, subVars, lockVars, scanVars, trafficVars, spawnVars, facadeVars, suppVars, bootVars, clientVars, iwdVars, agentVars, usbVars>>

\* A return path that clears ConnectingSSID whatever the generation
ConnectReturnAlwaysClears(c, err) ==
    /\ calls[c].pc = "assoc"
    /\ st' = [st EXCEPT !.ConnectingSSID = ""]
    /\ calls' = [calls EXCEPT ![c] = ReturnedCall(calls[c], TRUE)]
    /\ pending' = IF err # "" /\ agent THEN ClearPendingMap(pending, calls[c].netPath)
                  ELSE pending
    /\ UNCHANGED <<connectID, now, agentLog, nStored, nReturned>>
    /\ UNCHANGED <<storeVars, subVars, lockVars, scanVars, trafficVars, spawnVars, facadeVars, suppVars, bootVars, clientVars, iwdVars, usbVars>>

\* Client.Connect when the association call (Network.Connect or
\* ConnectHiddenNetwork) returns: under connectMu, clear ConnectingSSID if
\* connectID == myConnectID; ClearPending on error
ConnectReturn(c, err) ==
    /\ calls[c].pc = "assoc"
    /\ IF connectID = calls[c].myConnectID
       THEN /\ st' = [st EXCEPT !.ConnectingSSID = ""]
            /\ calls' = [calls EXCEPT ![c] = ReturnedCall(calls[c], TRUE)]
       ELSE /\ calls' = [calls EXCEPT ![c] = ReturnedCall(calls[c], FALSE)]
            /\ UNCHANGED st
    /\ pending' = IF err # "" /\ agent THEN ClearPendingMap(pending, calls[c].netPath)
                  ELSE pending
    /\ UNCHANGED <<connectID, now, agentLog, nStored, nReturned>>
    /\ UNCHANGED <<storeVars, subVars, lockVars, scanVars, trafficVars, spawnVars, facadeVars, suppVars, bootVars, clientVars, iwdVars, usbVars>>

-----------------------------------------------------------------------------
(* internal/dbus/methods.go: the Wi-Fi methods of the facade, the goroutines   *)
(* they start, and the supplicant's side of an association                     *)
(* Service.iwd is non-nil in every state of the model: NewClient fails only    *)
(* when the system bus itself cannot be reached.                               *)

\* the error of every bus call to the supplicant's name while it has no owner
\* or no Station
SuppFails == supp.phase # "ready"

MethodReply(method, busError, ok) == [method |-> method, busError |-> busError, ok |-> ok]

NoMethodReply == MethodReply("", "", FALSE)

\* Client.Connect(ssid, password, security, hidden) as the goroutine will call it
NoArgs == [ssid |-> "", password |-> "", security |-> "", hidden |-> FALSE]
IdleSvc == [pc |-> "idle", method |-> "", args |-> NoArgs]

\* Service.Connect, first Update: ConnectionState, ActiveSSID, LastError
ConnectRequestMutator(s, ssid) ==
    [s EXCEPT !.ConnectionState = StateConnecting, !.ActiveSSID = ssid, !.LastError = ""]

\* Service.ConnectSaved, first Update: ConnectionState, ActiveSSID
ConnectSavedRequestMutator(s, ssid) ==
    [s EXCEPT !.ConnectionState = StateConnecting, !.ActiveSSID = ssid]

\* Service.Connect up to its return: the Update and the start of the goroutine
ServiceConnect(c, a) ==
    /\ svc[c].pc = "idle"
    /\ \A b \in Calls : b < c => svc[b].pc # "idle"
    /\ a.ssid # ""
    /\ st' = ConnectRequestMutator(st, a.ssid)
    /\ svc' = [svc EXCEPT ![c] = [pc |-> "spawned", method |-> "Connect", args |-> a]]
    /\ methodReply' = MethodReply("Connect", "", TRUE)
    /\ UNCHANGED <<station, sigq, assoc>>
    /\ UNCHANGED <<storeVars, subVars, lockVars, scanVars, trafficVars, spawnVars, suppVars, bootVars, clientVars, iwdVars, connectVars,
                   agentVars, usbVars>>

\* Service.ConnectSaved up to its return
ServiceConnectSaved(c, ssid) ==
    /\ svc[c].pc = "idle"
    /\ \A b \in Calls : b < c => svc[b].pc # "idle"
    /\ st' = ConnectSavedRequestMutator(st, ssid)
    /\ svc' = [svc EXCEPT ![c] = [pc |-> "spawned", method |-> "ConnectSaved",
                                  args |-> [NoArgs EXCEPT !.ssid = ssid]]]
    /\ methodReply' = MethodReply("ConnectSaved", "", TRUE)
    /\ UNCHANGED <<station, sigq, assoc>>
    /\ UNCHANGED <<storeVars, subVars, lockVars, scanVars, trafficVars, spawnVars, suppVars, bootVars, clientVars, iwdVars, connectVars,
                   agentVars, usbVars>>

\* the goroutine of Service.Connect / ConnectSaved enters Client.Connect
ServiceConnectStart(c) ==
    /\ svc[c].pc = "spawned"
    /\ ClientConnectBegin(c, svc[c].args)

\* what the supplicant answers to the reads of Client.Connect and of the station
\* handlers: both networks in range, the connected one as the Station has it
StationView ==
    [ ok |-> ~SuppFails,
      ordered |-> IF SuppFails THEN << >>
                  ELSE << [Path |-> "/net/A", RSSI |-> -4000],
                          [Path |-> "/net/B", RSSI |-> -7550] >>,
      connected |-> IF station.state = "connected" THEN station.net ELSE "",
      known |-> {}, unreadable |-> {} ]

\* Client.Connect of call c, from Scan() to SetPending, against the supplicant
ServiceConnectScan(c) ==
    /\ svc[c].pc = "spawned"
    /\ ConnectScan(c, SuppFails, StationView, StationView)

\* the error Client.Connect returned to the goroutine ("" for nil)
ClientConnectErr(c) ==
    IF ~calls[c].didSet
    THEN IF SuppFails THEN "scan failed" ELSE "network not found"
    ELSE IF assoc[c] = "ok" THEN "" ELSE "Operation failed"

\* the goroutine after Client.Connect returned: on an error, the second Update
ConnectFailedMutator(s, method, err) ==
    IF method = "Connect"
    THEN [s EXCEPT !.ConnectionState = StateFailed, !.LastError = err]
    ELSE [s EXCEPT !.ConnectionState = StateFailed]

ServiceConnectDone(c) ==
    /\ svc[c].pc = "spawned"
    /\ calls[c].pc = "done"
    /\ LET err == ClientConnectErr(c) IN
       st' = IF err = "" THEN st ELSE ConnectFailedMutator(st, svc[c].method, err)
    /\ svc' = [svc EXCEPT ![c].pc = "done"]
    /\ UNCHANGED <<methodReply, station, sigq, assoc>>
    /\ UNCHANGED <<storeVars, subVars, lockVars, scanVars, trafficVars, spawnVars, suppVars, bootVars, clientVars, iwdVars, connectVars,
                   agentVars, usbVars>>

\* the passphrase the access point of a psk network accepts
RightPassword == "secret"

InProgress == {"started", "keyed", "badkey"}

\* the supplicant receives Network.Connect of call c: the Station goes to
\* connecting
SuppAssocStart(c) ==
    /\ ~SuppFails
    /\ calls[c].pc = "assoc"
    /\ assoc[c] = "none"
    /\ \A d \in Calls : assoc[d] \notin InProgress
    /\ assoc' = [assoc EXCEPT ![c] = "started"]
    /\ station' = [state |-> "connecting", net |-> calls[c].netPath]
    /\ sigq' = Append(sigq, [State |-> "connecting"])
    /\ UNCHANGED <<svc, methodReply>>
    /\ UNCHANGED <<st, storeVars, subVars, lockVars, scanVars, trafficVars, spawnVars, suppVars, bootVars, clientVars, iwdVars, connectVars,
                   agentVars, usbVars>>

\* the supplicant has no passphrase for the psk network and asks the Agent
SuppAskPassphrase(c) ==
    /\ assoc[c] = "started"
    /\ TypeOf(calls[c].netPath) = "psk"
    /\ OnRequestPassphrase(calls[c].netPath)
    /\ LET r == RequestPassphraseReply(pending, calls[c].netPath, now) IN
       assoc' = [assoc EXCEPT ![c] = IF r.error = "" /\ r.password = RightPassword
                                     THEN "keyed" ELSE "badkey"]
    /\ UNCHANGED <<svc, methodReply, station, sigq>>

\* the association succeeds: State connected, ConnectedNetwork the network
SuppAssocOk(c) ==
    /\ \/ assoc[c] = "keyed"
       \/ assoc[c] = "started" /\ TypeOf(calls[c].netPath) # "psk"
    /\ assoc' = [assoc EXCEPT ![c] = "ok"]
    /\ station' = [state |-> "connected", net |-> calls[c].netPath]
    /\ sigq' = Append(sigq, [State |-> "connected", ConnectedNetwork |-> calls[c].netPath])
    /\ UNCHANGED <<svc, methodReply>>
    /\ UNCHANGED <<st, storeVars, subVars, lockVars, scanVars, trafficVars, spawnVars, suppVars, bootVars, clientVars, iwdVars, connectVars,
                   agentVars, usbVars>>

\* the association fails (no or wrong passphrase, or the access point refuses):
\* State disconnected
SuppAssocFail(c) ==
    /\ \/ assoc[c] = "badkey"
       \/ assoc[c] = "started" /\ TypeOf(calls[c].netPath) # "psk"
    /\ assoc' = [assoc EXCEPT ![c] = "failed"]
    /\ station' = [state |-> "disconnected", net |-> ""]
    /\ sigq' = Append(sigq, [State |-> "disconnected"])
    /\ UNCHANGED <<svc, methodReply>>
    /\ UNCHANGED <<st, storeVars, subVars, lockVars, scanVars, trafficVars, spawnVars, suppVars, bootVars, clientVars, iwdVars, connectVars,
                   agentVars, usbVars>>

\* the Station ends the association it has (the access point is lost, or the
\* Station leaves it for another network): State disconnected
SuppLeaves ==
    /\ ~SuppFails
    /\ station.state = "connected"
    /\ Len(sigq) < MaxQueue
    /\ station' = [state |-> "disconnected", net |-> ""]
    /\ sigq' = Append(sigq, [State |-> "disconnected"])
    /\ UNCHANGED <<svc, methodReply, assoc>>
    /\ UNCHANGED <<st, storeVars, subVars, lockVars, scanVars, trafficVars, spawnVars, suppVars, bootVars, clientVars, iwdVars, connectVars,
                   agentVars, usbVars>>

\* the reply of Network.Connect reaches Client.Connect
ServiceConnectReturn(c) ==
    /\ assoc[c] \in {"ok", "failed"}
    /\ ConnectReturn(c, IF assoc[c] = "ok" THEN "" ELSE "Operation failed")

\* the property goroutine of subscribeSignals takes the next Station signal
DeliverStationSignal ==
    /\ sigq # << >>
    /\ sigq' = Tail(sigq)
    /\ OnStationChange(Head(sigq), StationView)
    /\ UNCHANGED <<svc, methodReply, station, assoc, spawnVars, subVars>>

\* Service.Disconnect against the supplicant: Station.Disconnect ends an
\* association in progress and a connection
FacadeDisconnect ==
    /\ OnServiceDisconnect(SuppFails)
    /\ methodReply' = MethodReply("Disconnect", "", TRUE)
    /\ station' = IF SuppFails THEN station ELSE [state |-> "disconnected", net |-> ""]
    /\ sigq' = IF ~SuppFails /\ station.state # "disconnected"
               THEN Append(sigq, [State |-> "disconnected"]) ELSE sigq
    /\ assoc' = [c \in Calls |-> IF ~SuppFails /\ assoc[c] \in InProgress
                                 THEN "failed" ELSE assoc[c]]
    /\ UNCHANGED svc

\* Service.EnableWifi
ServiceEnableWifi(enabled) ==
    /\ st' = IF SuppFails THEN st ELSE [st EXCEPT !.WifiEnabled = enabled]
    /\ methodReply' = MethodReply("EnableWifi", "", ~SuppFails)
    /\ UNCHANGED <<svc, station, sigq, assoc>>
    /\ UNCHANGED <<storeVars, subVars, lockVars, scanVars, trafficVars, spawnVars, suppVars, bootVars, clientVars, iwdVars, connectVars,
                   agentVars, usbVars>>

\* Service.Scan up to its return: WifiScanning = true and the goroutine
ServiceScan ==
    /\ st' = [st EXCEPT !.WifiScanning = TRUE]
    /\ tasks' = tasks \cup {"scan"}
    /\ methodReply' = MethodReply("Scan", "", TRUE)
    /\ UNCHANGED <<svc, station, sigq, assoc>>
    /\ UNCHANGED <<iwdOwner, propSubs, lifecycleUpdates>>
    /\ UNCHANGED <<storeVars, subVars, lockVars, scanVars, trafficVars, spawnVars, suppVars, bootVars, clientVars, connectVars,
                   agentVars, usbVars>>

\* the goroutine of Service.Scan after Client.Scan returned
ServiceScanDone ==
    /\ "scan" \in tasks
    /\ tasks' = tasks \ {"scan"}
    /\ LET r == ScanResult(SuppFails, StationView, StationView, st.ActiveSSID) IN
       st' = IF r.err = "" /\ r.ok
             THEN [st EXCEPT !.WifiScanning = FALSE, !.Networks = r.list]
             ELSE [st EXCEPT !.WifiScanning = FALSE]
    /\ UNCHANGED <<iwdOwner, propSubs, lifecycleUpdates>>
    /\ UNCHANGED <<storeVars, subVars, lockVars, scanVars, trafficVars, spawnVars, facadeVars, suppVars, bootVars, clientVars, connectVars,
                   agentVars, usbVars>>

\* Service.StartHotspot
ServiceStartHotspot(ssid) ==
    /\ st' = IF SuppFails THEN st
             ELSE [st EXCEPT !.HotspotActive = TRUE, !.HotspotSSID = ssid]
    /\ methodReply' = MethodReply("StartHotspot", "", ~SuppFails)
    /\ UNCHANGED <<svc, station, sigq, assoc>>
    /\ UNCHANGED <<storeVars, subVars, lockVars, scanVars, trafficVars, spawnVars, suppVars, bootVars, clientVars, iwdVars, connectVars,
                   agentVars, usbVars>>

\* Service.StopHotspot
ServiceStopHotspot ==
    /\ st' = IF SuppFails THEN st
             ELSE [st EXCEPT !.HotspotActive = FALSE, !.HotspotSSID = ""]
    /\ methodReply' = MethodReply("StopHotspot", "", TRUE)
    /\ UNCHANGED <<svc, station, sigq, assoc>>
    /\ UNCHANGED <<storeVars, subVars, lockVars, scanVars, trafficVars, spawnVars, suppVars, bootVars, clientVars, iwdVars, connectVars,
                   agentVars, usbVars>>

-----------------------------------------------------------------------------
(* internal/netlink Watcher (link and address events), Client.tryUsbFallback   *)
(* and Service.ReleaseUsbNetwork                                               *)

\* the USB network interface of a tethering phone
UsbIface == [name |-> "usb0", index |-> 3]
UsbAddress == "10.42.0.17"
UsbGateway == "10.42.0.1"
\* the names /sys/class/net/<name>/device/subsystem links to usb for
UsbNames == {"usb0", "usb1"}

NoLink == [present |-> FALSE, carrier |-> FALSE, addr |-> "", route |-> FALSE]

\* isUsbInterface: the sysfs test
isUsbInterface(name) == name \in UsbNames

\* the kernel's messages about the link
LinkMsg(type, up, carrier) ==
    [type |-> type, name |-> UsbIface.name, index |-> UsbIface.index,
     isUp |-> up, hasCarrier |-> carrier, ip |-> ""]

AddrMsg == [type |-> "NEWADDR", name |-> "", index |-> UsbIface.index,
            isUp |-> FALSE, hasCarrier |-> FALSE, ip |-> UsbAddress]

\* The phone is plugged in: the link appears, without carrier
KernelPlug ==
    /\ ~usbLink.present
    /\ Len(nlq) < MaxQueue
    /\ usbLink' = [NoLink EXCEPT !.present = TRUE]
    /\ nlq' = Append(nlq, LinkMsg("NEWLINK", FALSE, FALSE))
    /\ UNCHANGED <<st, fallbacks>>
    /\ UNCHANGED exceptUsb

\* Tethering is switched on or off on the phone: carrier up or down (an
\* address and its route go away with the carrier)
KernelCarrier(on, up) ==
    /\ usbLink.present
    /\ usbLink.carrier # on
    /\ Len(nlq) < MaxQueue
    /\ usbLink' = IF on THEN [usbLink EXCEPT !.carrier = TRUE]
                  ELSE [NoLink EXCEPT !.present = TRUE]
    /\ nlq' = Append(nlq, LinkMsg("NEWLINK", on /\ up, on))
    /\ UNCHANGED <<st, fallbacks>>
    /\ UNCHANGED exceptUsb

\* The phone is unplugged: the link is removed
KernelUnplug ==
    /\ usbLink.present
    /\ Len(nlq) < MaxQueue
    /\ usbLink' = NoLink
    /\ nlq' = Append(nlq, LinkMsg("DELLINK", FALSE, FALSE))
    /\ UNCHANGED <<st, fallbacks>>
    /\ UNCHANGED exceptUsb

\* A removal that looks for the tracked interface by its name
DelLinkMutatorByName(s, msg) ==
    IF s.UsbInterfaceName = msg.name
    THEN [s EXCEPT !.UsbInterfaceDetected = FALSE, !.UsbTetheringAvailable = FALSE,
                   !.UsbTetheringConnected = FALSE, !.UsbInterfaceName = "",
                   !.UsbInterfaceIndex = 0]
    ELSE s

\* the mutator of handleLinkMessage for RTM_DELLINK
DelLinkMutator(s, msg) ==
    IF s.UsbInterfaceIndex = msg.index
    THEN [s EXCEPT !.UsbInterfaceDetected = FALSE, !.UsbTetheringAvailable = FALSE,
                   !.UsbTetheringConnected = FALSE, !.UsbInterfaceName = "",
                   !.UsbInterfaceIndex = 0]
    ELSE s

\* getConnectionType(ifaceName)
getConnectionType(name) ==
    IF isUsbInterface(name) THEN "usb"
    ELSE IF name = "wlan0" THEN "wifi"
    ELSE IF name = "eth0" THEN "ethernet"
    ELSE "unknown"

\* the mutator of handleLinkMessage for RTM_NEWLINK
NewLinkMutator(s, msg) ==
    IF isUsbInterface(msg.name)
    THEN LET s1 == [s EXCEPT !.UsbInterfaceDetected = TRUE,
                             !.UsbInterfaceName = msg.name,
                             !.UsbInterfaceIndex = msg.index]
         IN IF msg.hasCarrier
            THEN [s1 EXCEPT !.UsbTetheringAvailable = TRUE]
            ELSE [s1 EXCEPT !.UsbTetheringAvailable = FALSE,
                            !.UsbTetheringConnected = FALSE]
    ELSE IF msg.isUp /\ (s.InterfaceName = msg.name \/ s.InterfaceName = "")
         THEN [s EXCEPT !.InterfaceName = msg.name,
                        !.ConnectionType = getConnectionType(msg.name)]
         ELSE s

\* A handler that starts DHCP on every carrier-up message
StartsDhcpOnEveryCarrier(s, msg) ==
    isUsbInterface(msg.name) /\ msg.hasCarrier

\* handleLinkMessage starts runDHCPOnInterface: carrier up, not yet available
StartsDhcp(s, msg) ==
    isUsbInterface(msg.name) /\ msg.hasCarrier /\ ~s.UsbTetheringAvailable

\* handleLinkMessage starts bringUpInterface: in the same branch, the link not up
StartsBringUp(s, msg) ==
    isUsbInterface(msg.name) /\ msg.hasCarrier /\ ~s.UsbTetheringAvailable /\ ~msg.isUp

\* handleLinkMessage for one RTM_NEWLINK or RTM_DELLINK; a message without a
\* name or about "lo" is dropped. bringUpInterface acts on the kernel only.
OnLinkMessage(msg) ==
    /\ st' = IF msg.name = "" \/ msg.name = "lo" THEN st
             ELSE IF msg.type = "DELLINK" THEN DelLinkMutator(st, msg)
             ELSE NewLinkMutator(st, msg)
    /\ tasks' = IF msg.type = "NEWLINK" /\ StartsDhcp(st, msg)
                THEN tasks \cup {"dhcp"} ELSE tasks
    /\ UNCHANGED <<fallbacks, usbLink, iwdOwner, propSubs, lifecycleUpdates>>
    /\ UNCHANGED <<storeVars, subVars, lockVars, scanVars, trafficVars, facadeVars, suppVars, bootVars, clientVars, connectVars, agentVars>>

\* the Watcher takes the next link message of the kernel
HandleLinkMessage ==
    /\ nlq # << >>
    /\ Head(nlq).type \in {"NEWLINK", "DELLINK"}
    /\ nlq' = Tail(nlq)
    /\ OnLinkMessage(Head(nlq))
    /\ UNCHANGED spawnVars

\* dhcpcd configures the link when it has carrier: an address, with or without
\* a default route, and the kernel's RTM_NEWADDR
Lease(link, route) == [link EXCEPT !.addr = UsbAddress, !.route = route]

\* runDHCPOnInterface: sudo dhcpcd -4 -q iface, detached
RunDHCPOnInterface(route) ==
    /\ "dhcp" \in tasks
    /\ tasks' = tasks \ {"dhcp"}
    /\ IF usbLink.present /\ usbLink.carrier /\ usbLink.addr = "" /\ Len(nlq) < MaxQueue
       THEN /\ usbLink' = Lease(usbLink, route)
            /\ nlq' = Append(nlq, AddrMsg)
       ELSE UNCHANGED <<usbLink, nlq>>
    /\ UNCHANGED <<st, fallbacks, iwdOwner, propSubs, lifecycleUpdates>>
    /\ UNCHANGED <<storeVars, subVars, lockVars, scanVars, trafficVars, spawnVars, facadeVars, suppVars, bootVars, clientVars, connectVars, agentVars>>

\* Link.List as handleAddressMessage uses it: the name of the link with the
\* index, "" when the link is gone
LinkNameOf(index) ==
    IF usbLink.present /\ index = UsbIface.index THEN UsbIface.name ELSE ""

\* checkDefaultRouteViaInterface
checkDefaultRouteViaInterface(index) ==
    usbLink.present /\ index = UsbIface.index /\ usbLink.route

\* An address handler that takes the address alone for a connection
AddressMutatorIgnoresRoute(s, ifaceName, msg, viaRoute) ==
    LET s1 == IF isUsbInterface(ifaceName) /\ s.UsbInterfaceName = ifaceName
              THEN [s EXCEPT !.IpAddress = msg.ip,
                             !.UsbTetheringConnected = TRUE,
                             !.ConnectionType = "usb"]
              ELSE s
    IN IF ~isUsbInterface(ifaceName) /\ s1.InterfaceName = ifaceName
       THEN [s1 EXCEPT !.IpAddress = msg.ip,
                       !.ConnectionState =
                           IF @ \in {StateConnecting, StateObtaining}
                           THEN StateConnected ELSE @]
       ELSE s1

\* An address handler that reports connected from any state
AddressMutatorPromotesAlways(s, ifaceName, msg, viaRoute) ==
    LET s1 == IF isUsbInterface(ifaceName) /\ s.UsbInterfaceName = ifaceName
              THEN IF viaRoute
                   THEN [s EXCEPT !.IpAddress = msg.ip,
                                  !.UsbTetheringConnected = TRUE,
                                  !.ConnectionType = "usb"]
                   ELSE [s EXCEPT !.IpAddress = msg.ip]
              ELSE s
    IN IF ~isUsbInterface(ifaceName) /\ s1.InterfaceName = ifaceName
       THEN [s1 EXCEPT !.IpAddress = msg.ip, !.ConnectionState = StateConnected]
       ELSE s1

\* the mutator of handleAddressMessage; viaRoute is what
\* checkDefaultRouteViaInterface(ifaceIndex) answers inside it
AddressMutator(s, ifaceName, msg, viaRoute) ==
    LET s1 == IF isUsbInterface(ifaceName) /\ s.UsbInterfaceName = ifaceName
              THEN IF viaRoute
                   THEN [s EXCEPT !.IpAddress = msg.ip,
                                  !.UsbTetheringConnected = TRUE,
                                  !.ConnectionType = "usb"]
                   ELSE [s EXCEPT !.IpAddress = msg.ip]
              ELSE s
    IN IF ~isUsbInterface(ifaceName) /\ s1.InterfaceName = ifaceName
       THEN [s1 EXCEPT !.IpAddress = msg.ip,
                       !.ConnectionState =
                           IF @ \in {StateConnecting, StateObtaining}
                           THEN StateConnected ELSE @]
       ELSE s1

\* the mutator of fetchGateway; gw is the gateway of the first default route,
\* "" when there is none
GatewayMutator(s, gw) == IF gw = "" THEN s ELSE [s EXCEPT !.Gateway = gw]

\* handleAddressMessage for one RTM_NEWADDR or RTM_DELADDR: removals are
\* ignored; ifaceName is the name Link.List has for the index
OnAddressMessage(msg, ifaceName, viaRoute, gw) ==
    /\ st' = IF msg.type = "DELADDR" \/ ifaceName = "" \/ ifaceName = "lo" THEN st
             ELSE GatewayMutator(AddressMutator(st, ifaceName, msg, viaRoute), gw)
    /\ UNCHANGED <<fallbacks, usbLink>>
    /\ UNCHANGED <<storeVars, subVars, lockVars, scanVars, trafficVars, facadeVars, suppVars, bootVars, clientVars, iwdVars, connectVars, agentVars>>

\* the Watcher takes the next address message of the kernel
HandleAddressMessage ==
    /\ nlq # << >>
    /\ Head(nlq).type = "NEWADDR"
    /\ nlq' = Tail(nlq)
    /\ LET msg == Head(nlq) IN
       OnAddressMessage(msg, LinkNameOf(msg.index),
                        checkDefaultRouteViaInterface(msg.index),
                        IF usbLink.present /\ usbLink.route THEN UsbGateway ELSE "")
    /\ UNCHANGED spawnVars

\* fetchInterfaces: the Updates of one pass over Link.List, in list order
RECURSIVE FetchInterfacesMutator(_, _)
FetchInterfacesMutator(s, links) ==
    IF links = << >> THEN s
    ELSE LET l == Head(links)
             s1 == IF l.name # "lo" /\ isUsbInterface(l.name)
                   THEN [s EXCEPT !.UsbInterfaceDetected = TRUE,
                                  !.UsbInterfaceName = l.name,
                                  !.UsbInterfaceIndex = l.index,
                                  !.UsbTetheringAvailable = IF l.hasCarrier THEN TRUE ELSE @]
                   ELSE s
             s2 == IF l.name # "lo" /\ l.isUp /\ ~isUsbInterface(l.name)
                   THEN [s1 EXCEPT !.InterfaceName = l.name,
                                   !.MacAddress = "02:00:00:00:00:01",
                                   !.ConnectionType = getConnectionType(l.name)]
                   ELSE s1
         IN FetchInterfacesMutator(s2, Tail(links))

\* fetchInterfaces: the USB links with carrier (DHCP is started for each) and
\* those of them that are not up (bringUpInterface is started for each)
CarrierLinks(links) == SelectSeq(links, LAMBDA l : isUsbInterface(l.name) /\ l.hasCarrier)
DownCarrierLinks(links) ==
    SelectSeq(links, LAMBDA l : isUsbInterface(l.name) /\ l.hasCarrier /\ ~l.isUp)

\* Watcher.Run: fetchInterfaces() over what Link.List returns
FetchInterfaces(links) ==
    /\ wpc = "start"
    /\ wpc' = "addrs"
    /\ st' = FetchInterfacesMutator(st, links)
    /\ nDhcp' = nDhcp + Len(CarrierLinks(links))
    /\ nBringUp' = nBringUp + Len(DownCarrierLinks(links))
    /\ tasks' = IF Len(CarrierLinks(links)) > 0 THEN tasks \cup {"dhcp"} ELSE tasks
    /\ UNCHANGED <<nFallback, usbVars, iwdOwner, propSubs, lifecycleUpdates>>
    /\ UNCHANGED <<storeVars, subVars, lockVars, scanVars, trafficVars, facadeVars, suppVars, bootVars, clientVars, connectVars, agentVars>>

\* Watcher.Run: fetchAddresses(); ip is the address Address.List has for the
\* link named st.InterfaceName, "" when it has none
FetchAddresses(ip) ==
    /\ wpc = "addrs"
    /\ wpc' = "run"
    /\ st' = IF st.InterfaceName # "" /\ ip # "" THEN [st EXCEPT !.IpAddress = ip] ELSE st
    /\ UNCHANGED <<nFallback, nDhcp, nBringUp, usbVars>>
    /\ UNCHANGED exceptUsbSpawn

\* Watcher.Run's loop: one link message of the kernel, the goroutines counted
WatchLink(msg) ==
    /\ wpc = "run"
    /\ nDhcp < MaxStarts
    /\ OnLinkMessage(msg)
    /\ nDhcp' = IF msg.type = "NEWLINK" /\ StartsDhcp(st, msg) THEN nDhcp + 1 ELSE nDhcp
    /\ nBringUp' = IF msg.type = "NEWLINK" /\ StartsBringUp(st, msg)
                   THEN nBringUp + 1 ELSE nBringUp
    /\ UNCHANGED <<nlq, nFallback, wpc>>

\* the same, the goroutines not counted
WatchLinkUncounted(msg) ==
    /\ wpc = "run"
    /\ OnLinkMessage(msg)
    /\ UNCHANGED <<nlq, spawnVars>>

\* Watcher.Run's loop: one address message of the kernel
WatchAddr(msg, ifaceName, viaRoute, gw) ==
    /\ wpc = "run"
    /\ OnAddressMessage(msg, ifaceName, viaRoute, gw)
    /\ UNCHANGED <<nlq, spawnVars>>

\* tryUsbFallback: sudo ip link set <iface> up
FallbackUp(f) ==
    /\ f \in fallbacks
    /\ f.pc = "up"
    /\ fallbacks' = IF usbLink.present
                    THEN (fallbacks \ {f}) \cup {[f EXCEPT !.pc = "dhcp"]}
                    ELSE fallbacks \ {f}
    /\ UNCHANGED <<st, usbLink, nlq>>
    /\ UNCHANGED exceptUsb

\* tryUsbFallback: sudo dhcpcd -4 -w <iface>; it succeeds when the link has
\* carrier and a lease is there or can be had
FallbackDhcp(f, ok, route) ==
    /\ f \in fallbacks
    /\ f.pc = "dhcp"
    /\ IF ok /\ usbLink.present /\ usbLink.carrier
          /\ (usbLink.addr # "" \/ Len(nlq) < MaxQueue)
       THEN /\ fallbacks' = (fallbacks \ {f}) \cup {[f EXCEPT !.pc = "update"]}
            /\ IF usbLink.addr = ""
               THEN /\ usbLink' = Lease(usbLink, route)
                    /\ nlq' = Append(nlq, AddrMsg)
               ELSE UNCHANGED <<usbLink, nlq>>
       ELSE /\ fallbacks' = fallbacks \ {f}
            /\ UNCHANGED <<usbLink, nlq>>
    /\ UNCHANGED st
    /\ UNCHANGED exceptUsb

\* the mutator of tryUsbFallback
FallbackMutator(s) == [s EXCEPT !.UsbTetheringConnected = TRUE, !.ConnectionType = "usb"]

\* tryUsbFallback: the Update after dhcpcd succeeded
FallbackUpdate(f) ==
    /\ f \in fallbacks
    /\ f.pc = "update"
    /\ fallbacks' = fallbacks \ {f}
    /\ st' = FallbackMutator(st)
    /\ UNCHANGED <<usbLink, nlq>>
    /\ UNCHANGED exceptUsb

\* Service.ReleaseUsbNetwork: nothing when no USB interface is known, else the
\* detached release
ServiceReleaseUsbNetwork ==
    /\ st.UsbInterfaceName # ""
    /\ tasks' = tasks \cup {"release"}
    /\ UNCHANGED <<st, iwdOwner, propSubs, lifecycleUpdates>>
    /\ UNCHANGED <<storeVars, subVars, lockVars, scanVars, trafficVars, spawnVars, facadeVars, suppVars, bootVars, clientVars, connectVars, agentVars, usbVars>>

\* the goroutine of ReleaseUsbNetwork: dhcpcd -k, then UsbTetheringConnected = false
ReleaseUsbDone ==
    /\ "release" \in tasks
    /\ tasks' = tasks \ {"release"}
    /\ usbLink' = [usbLink EXCEPT !.addr = "", !.route = FALSE]
    /\ st' = [st EXCEPT !.UsbTetheringConnected = FALSE]
    /\ UNCHANGED <<fallbacks, nlq, iwdOwner, propSubs, lifecycleUpdates>>
    /\ UNCHANGED <<storeVars, subVars, lockVars, scanVars, trafficVars, spawnVars, facadeVars, suppVars, bootVars, clientVars, connectVars, agentVars>>

-----------------------------------------------------------------------------
(* internal/traffic Monitor: the sampler that runs once a second *)

minDeltaBytes == 100

\* the counters of the kernel and of the Monitor are unsigned and wrap
Sub64(a, b) == (a - b + CounterModulus) % CounterModulus

NoSample ==
    [kind |-> "", deltaRx |-> 0, deltaTx |-> 0,
     activeBefore |-> FALSE, zerosBefore |-> 0, active |-> FALSE, zeros |-> 0]

\* NewMonitor
InitTraffic ==
    /\ rx = 0
    /\ tx = 0
    /\ lastRx = 0
    /\ lastTx = 0
    /\ idleEmitted = FALSE
    /\ quiet = FALSE
    /\ sampleLog = NoSample

\* sample: the interface it reads; found is what findActiveInterface returns
SampleInterface(s, found) ==
    LET iface == IF /\ s.InterfaceName = "" \/ s.ConnectionState # StateConnected
                    /\ s.UsbTetheringConnected
                    /\ s.UsbInterfaceName # ""
                 THEN s.UsbInterfaceName ELSE s.InterfaceName
    IN IF iface = "" THEN found ELSE iface

\* sample: which of its paths it takes
SampleKind(iface, rxNow, txNow, deltaRx, deltaTx, emitted) ==
    IF iface = "" \/ (rxNow = 0 /\ txNow = 0) THEN "return"
    ELSE IF deltaRx > minDeltaBytes \/ deltaTx > minDeltaBytes THEN "active"
    ELSE IF deltaRx = 0 /\ deltaTx = 0 /\ ~emitted THEN "zero"
    ELSE "none"

\* the mutators of sample
SampleMutator(s, kind, iface, deltaRx, deltaTx) ==
    CASE kind = "active" ->
           [s EXCEPT !.TrafficIn = deltaRx, !.TrafficOut = deltaTx, !.InterfaceName = iface]
      [] kind = "zero" -> [s EXCEPT !.TrafficIn = 0, !.TrafficOut = 0]
      [] OTHER -> s

\* One tick of Monitor.Run: the interface has moved dRx and dTx bytes since
\* the last tick, then sample() runs. Once the traffic has gone quiet no
\* sample sees a delta above minDeltaBytes.
Sample(found, dRx, dTx) ==
    LET iface == SampleInterface(st, found)
        rxNow == (rx + dRx) % CounterModulus
        txNow == (tx + dTx) % CounterModulus
        deltaRx == IF lastRx > 0 THEN Sub64(rxNow, lastRx) ELSE 0
        deltaTx == IF lastRx > 0 THEN Sub64(txNow, lastTx) ELSE 0
        kind == SampleKind(iface, rxNow, txNow, deltaRx, deltaTx, idleEmitted)
    IN /\ quiet => deltaRx <= minDeltaBytes /\ deltaTx <= minDeltaBytes
       /\ rx' = rxNow
       /\ tx' = txNow
       /\ lastRx' = IF kind = "return" THEN lastRx ELSE rxNow
       /\ lastTx' = IF kind = "return" THEN lastTx ELSE txNow
       /\ st' = SampleMutator(st, kind, iface, deltaRx, deltaTx)
       /\ idleEmitted' = CASE kind = "active" -> FALSE
                           [] kind = "zero" -> TRUE
                           [] OTHER -> idleEmitted
       /\ sampleLog' =
            [kind |-> kind,
             deltaRx |-> IF kind = "return" THEN 0 ELSE deltaRx,
             deltaTx |-> IF kind = "return" THEN 0 ELSE deltaTx,
             activeBefore |-> sampleLog.active,
             zerosBefore |-> sampleLog.zeros,
             active |-> sampleLog.active \/ kind = "active",
             zeros |-> CASE kind = "active" -> 0
                         [] kind = "zero" -> IF sampleLog.zeros < 2 THEN sampleLog.zeros + 1 ELSE 2
                         [] OTHER -> sampleLog.zeros]
       /\ UNCHANGED quiet
       /\ UNCHANGED exceptTraffic

\* readStats after the interface was created anew (USB cable plugged again,
\* driver reloaded), or on another interface than the last sample read: the
\* counters start again below the values sample() has stored
CountersReset(rx0, tx0) ==
    /\ rx0 < rx
    /\ tx0 <= tx
    /\ rx' = rx0
    /\ tx' = tx0
    /\ UNCHANGED <<st, lastRx, lastTx, idleEmitted, quiet, sampleLog>>
    /\ UNCHANGED exceptTraffic

\* the traffic on the interface dies down for good
GoQuiet ==
    /\ ~quiet
    /\ quiet' = TRUE
    /\ UNCHANGED <<st, rx, tx, lastRx, lastTx, idleEmitted, sampleLog>>
    /\ UNCHANGED exceptTraffic

-----------------------------------------------------------------------------
(* Client.Scan step by step: the call, the listener goroutine, the wait *)

\* time.After(15 * time.Second)
ScanTimeout == 15

NilNetworks == [ok |-> FALSE, list |-> << >>]

\* no Scan has been called
InitScan ==
    scan = [ pc |-> "idle", reply |-> "", listener |-> "none", sigChan |-> << >>,
             scanDone |-> FALSE, clock |-> 0, reads |-> 0,
             first |-> NilNetworks, second |-> NilNetworks, networks |-> NilNetworks,
             err |-> "", woke |-> "", heard |-> FALSE, missed |-> FALSE ]

\* Scan: err != nil && !strings.Contains(err.Error(), "Busy")
ScanCallFailed(reply) == reply # "ok" /\ reply # "busy"

\* Scan: obj.Call(StationIface+".Scan"); returns the error unless it is Busy
ScanCall(reply) ==
    /\ scan.pc = "idle"
    /\ scan' = IF ScanCallFailed(reply)
               THEN [scan EXCEPT !.pc = "done", !.reply = reply, !.err = reply]
               ELSE [scan EXCEPT !.pc = "called", !.reply = reply]
    /\ UNCHANGED st
    /\ UNCHANGED exceptScan

\* Scan: AddMatch, conn.Signal(sigChan) and the start of the listener goroutine
ScanListen ==
    /\ scan.pc = "called"
    /\ scan' = [scan EXCEPT !.pc = "wait", !.listener = "running"]
    /\ UNCHANGED st
    /\ UNCHANGED exceptScan

\* The supplicant reports Scanning = scanning on the station: the connection
\* hands the signal to sigChan when the channel is registered
StationScanningSignal(scanning) ==
    /\ scan.pc # "idle"
    /\ IF scan.listener = "running"
       THEN /\ Len(scan.sigChan) < MaxQueue
            /\ scan' = [scan EXCEPT !.sigChan = Append(@, scanning)]
       ELSE scan' = [scan EXCEPT !.missed = @ \/ (scan.pc = "called" /\ ~scanning)]
    /\ UNCHANGED st
    /\ UNCHANGED exceptScan

\* the listener goroutine takes one signal from sigChan; on Scanning = false
\* it sends on scanDone and returns (RemoveSignal, RemoveMatch)
ScanListener ==
    /\ scan.listener = "running"
    /\ Len(scan.sigChan) > 0
    /\ LET scanning == Head(scan.sigChan) IN
       scan' = IF ~scanning
               THEN [scan EXCEPT !.sigChan = << >>, !.scanDone = TRUE,
                                 !.heard = TRUE, !.listener = "exited"]
               ELSE [scan EXCEPT !.sigChan = Tail(@)]
    /\ UNCHANGED st
    /\ UNCHANGED exceptScan

\* one second passes while Scan waits in its select
ScanTick ==
    /\ scan.pc = "wait"
    /\ scan.clock < ScanTimeout
    /\ scan' = [scan EXCEPT !.clock = @ + 1]
    /\ UNCHANGED st
    /\ UNCHANGED exceptScan

ScanWakesOnSignal(s, woke) == woke = "signal" /\ s.scanDone

\* select: case <-scanDone, case <-time.After(15 * time.Second)
ScanWakes(s, woke) ==
    \/ woke = "signal" /\ s.scanDone
    \/ woke = "timeout" /\ s.clock >= ScanTimeout

\* Scan leaves its select
ScanWake(woke) ==
    /\ scan.pc = "wait"
    /\ ScanWakes(scan, woke)
    /\ scan' = [scan EXCEPT !.pc = "fetch", !.woke = woke,
                            !.scanDone = IF woke = "signal" THEN FALSE ELSE @]
    /\ UNCHANGED st
    /\ UNCHANGED exceptScan

ScanNeedsRetryNever(networks) == FALSE

\* Scan: if len(networks) == 0
ScanNeedsRetry(networks) == Len(networks.list) = 0

\* Scan: networks := c.fetchNetworksFromIWD()
ScanFetch(view) ==
    /\ scan.pc = "fetch"
    /\ LET networks == fetchNetworksFromIWD(view, st.ActiveSSID) IN
       scan' = [scan EXCEPT !.pc = IF ScanNeedsRetry(networks) THEN "retry" ELSE "publish",
                            !.reads = @ + 1, !.first = networks, !.networks = networks]
    /\ UNCHANGED st
    /\ UNCHANGED exceptScan

\* Scan: time.Sleep(1 * time.Second); networks = c.fetchNetworksFromIWD()
ScanRetry(view) ==
    /\ scan.pc = "retry"
    /\ LET networks == fetchNetworksFromIWD(view, st.ActiveSSID) IN
       scan' = [scan EXCEPT !.pc = "publish", !.reads = @ + 1,
                            !.second = networks, !.networks = networks]
    /\ UNCHANGED st
    /\ UNCHANGED exceptScan

\* Scan: if networks != nil { Update(st.Networks = networks) }; return networks, nil
ScanPublish ==
    /\ scan.pc = "publish"
    /\ st' = IF scan.networks.ok THEN [st EXCEPT !.Networks = scan.networks.list] ELSE st
    /\ scan' = [scan EXCEPT !.pc = "done"]
    /\ UNCHANGED exceptScan

-----------------------------------------------------------------------------
(* Mutators that make calls of their own: the Update of handleStationChange
   and of handleAddressMessage, one step per call made inside fn(&m.state) *)

IdleLock ==
    [ pc |-> "idle", call |-> "", path |-> "", scanCompleted |-> FALSE,
      fallback |-> FALSE, refresh |-> FALSE, index |-> 0 ]

\* no Update with such a mutator is in progress
InitLock == lk = IdleLock

\* handleStationChange up to the first call of its mutator: Lock, the State and
\* Scanning parts, then fetchNetworkDetails asks the network for its properties
StationChangeLock(props) ==
    /\ propSubs > 0
    /\ iwdOwner # ""
    /\ lk.pc = "idle"
    /\ mu = 0
    /\ mu' = 1
    /\ LET s1 == StationStateMutator(st, props)
           s2 == IF Has(props, "Scanning") THEN [s1 EXCEPT !.WifiScanning = props.Scanning]
                 ELSE s1
           calls1 == Has(props, "ConnectedNetwork") /\ props.ConnectedNetwork # ""
       IN /\ st' = s2
          /\ lk' = [ pc |-> IF calls1 THEN "mutator" ELSE "unlock",
                     call |-> IF calls1 THEN "Properties.GetAll" ELSE "",
                     path |-> IF calls1 THEN props.ConnectedNetwork ELSE "",
                     scanCompleted |-> Has(props, "Scanning") /\ ~props.Scanning,
                     fallback |-> StartsUsbFallback(st, props),
                     refresh |-> Has(props, "State") /\ props.State = "connected",
                     index |-> 0 ]
    /\ UNCHANGED <<onChange, upc, ucopy, ucb, useq, updates, delivered, lastGet>>
    /\ UNCHANGED exceptStoreLock

\* the supplicant answers the call the mutator waits for: GetAll of the
\* network, then GetOrderedNetworks of the station (fetchActiveSignal)
StationChangeReply(view) ==
    /\ lk.pc = "mutator"
    /\ lk.call \in {"Properties.GetAll", "GetOrderedNetworks"}
    /\ mu = 1
    /\ IF lk.call = "Properties.GetAll"
       THEN IF lk.path \in view.unreadable
            THEN /\ st' = st
                 /\ lk' = [lk EXCEPT !.pc = "unlock", !.call = ""]
            ELSE /\ st' = [st EXCEPT !.ActiveSSID = SSIDOf(lk.path),
                                     !.ActiveSecurity = TypeOf(lk.path)]
                 /\ lk' = [lk EXCEPT !.call = "GetOrderedNetworks"]
       ELSE /\ st' = fetchActiveSignal(st, lk.path, view)
            /\ lk' = [lk EXCEPT !.pc = "unlock", !.call = ""]
    /\ UNCHANGED storeVars
    /\ UNCHANGED exceptStoreLock

\* handleStationChange from the Unlock of its Update to its end: the fetch
\* after a finished scan and the goroutines it starts
StationChangeUnlock(view) ==
    /\ lk.pc = "unlock"
    /\ lk.index = 0
    /\ mu = 1
    /\ mu' = 0
    /\ lk' = IdleLock
    /\ LET nets == fetchNetworksFromIWD(view, st.ActiveSSID) IN
       st' = IF lk.scanCompleted /\ nets.ok THEN [st EXCEPT !.Networks = nets.list] ELSE st
    /\ fallbacks' = IF lk.fallback
                    THEN fallbacks \cup {[iface |-> st.UsbInterfaceName, pc |-> "up"]}
                    ELSE fallbacks
    /\ tasks' = IF lk.refresh THEN tasks \cup {"refresh"} ELSE tasks
    /\ UNCHANGED <<onChange, upc, ucopy, ucb, useq, updates, delivered, lastGet>>
    /\ UNCHANGED <<iwdOwner, propSubs, lifecycleUpdates, usbLink, nlq>>
    /\ UNCHANGED <<scanVars, trafficVars, suppVars, bootVars, clientVars, connectVars, agentVars, facadeVars, spawnVars, subVars>>

\* handleAddressMessage up to the call of its mutator: Lock, the address of
\* the tracked USB interface, then checkDefaultRouteViaInterface asks the
\* kernel for its routes; an address of another interface needs no call
AddressLock(msg, ifaceName) ==
    /\ msg.type = "NEWADDR"
    /\ ifaceName # "" /\ ifaceName # "lo"
    /\ lk.pc = "idle"
    /\ mu = 0
    /\ mu' = 1
    /\ IF isUsbInterface(ifaceName) /\ st.UsbInterfaceName = ifaceName
       THEN /\ st' = [st EXCEPT !.IpAddress = msg.ip]
            /\ lk' = [IdleLock EXCEPT !.pc = "mutator", !.call = "Route.List",
                                      !.index = msg.index]
       ELSE /\ st' = AddressMutator(st, ifaceName, msg, FALSE)
            /\ lk' = [IdleLock EXCEPT !.pc = "unlock", !.index = msg.index]
    /\ UNCHANGED <<onChange, upc, ucopy, ucb, useq, updates, delivered, lastGet>>
    /\ UNCHANGED exceptStoreLock

\* the kernel answers Route.List
AddressReply(viaRoute) ==
    /\ lk.pc = "mutator"
    /\ lk.call = "Route.List"
    /\ mu = 1
    /\ st' = IF viaRoute
             THEN [st EXCEPT !.UsbTetheringConnected = TRUE, !.ConnectionType = "usb"]
             ELSE st
    /\ lk' = [lk EXCEPT !.pc = "unlock", !.call = ""]
    /\ UNCHANGED storeVars
    /\ UNCHANGED exceptStoreLock

\* handleAddressMessage from the Unlock of its Update to its end (fetchGateway)
AddressUnlock(gw) ==
    /\ lk.pc = "unlock"
    /\ lk.index # 0
    /\ mu = 1
    /\ mu' = 0
    /\ lk' = IdleLock
    /\ st' = GatewayMutator(st, gw)
    /\ UNCHANGED <<onChange, upc, ucopy, ucb, useq, updates, delivered, lastGet>>
    /\ UNCHANGED exceptStoreLock

-----------------------------------------------------------------------------
(* subscribeSignals: one channel and one goroutine per successful
   initialization; the connection hands every signal to every channel *)

\* no signal has been sent
InitSub ==
    /\ subq = [i \in 1..MaxSubs |-> << >>]
    /\ sent = 0
    /\ applied = << >>

\* The supplicant sends PropertiesChanged of its Station: the connection puts
\* the signal on the channel of every subscription made so far
StationSignal(props) ==
    /\ iwdOwner # ""
    /\ propSubs > 0
    /\ sent < MaxSignals
    /\ sent' = sent + 1
    /\ applied' = Append(applied, 0)
    /\ subq' = [i \in 1..MaxSubs |->
                   IF i <= propSubs THEN Append(subq[i], [id |-> sent + 1, props |-> props])
                   ELSE subq[i]]
    /\ UNCHANGED <<st, storeVars, lockVars, scanVars, trafficVars, spawnVars, facadeVars, suppVars, bootVars, clientVars, iwdVars, connectVars, agentVars, usbVars>>

\* the goroutine of subscription i takes the next signal from its channel:
\* handlePropertyChange, handleStationChange
PropertyGoroutine(i, view) ==
    /\ subq[i] # << >>
    /\ ApplyStationChange(Head(subq[i]).props, view)
    /\ subq' = [subq EXCEPT ![i] = Tail(@)]
    /\ applied' = [applied EXCEPT ![Head(subq[i]).id] = @ + 1]
    /\ UNCHANGED sent
    /\ UNCHANGED <<facadeVars, spawnVars>>

-----------------------------------------------------------------------------
(* internal/dbus/methods.go Service.Forget, internal/iwd/client.go Forget,
   RefreshKnownNetworks *)

\* Client.Forget: the error it returns ("" for nil)
ForgetErr(ssid) ==
    IF supp.phase = "absent" THEN "failed to get managed objects"
    ELSE IF \E i \in DOMAIN supp.known : supp.known[i] = ssid THEN ""
         ELSE "known network not found"

\* the supplicant's known networks after KnownNetwork.Forget of ssid
WithoutProfile(known, ssid) == SelectSeq(known, LAMBDA n : n # ssid)

\* the mutator of RefreshKnownNetworks: the list as read, empty or not
RefreshKnownNetworksMutator(s, objs) ==
    IF objs.ok THEN [s EXCEPT !.SavedNetworks = objs.known] ELSE s

\* Service.Forget: Client.Forget, then on success RefreshKnownNetworks
ServiceForget(ssid) ==
    /\ LET err == ForgetErr(ssid)
           left == WithoutProfile(supp.known, ssid)
       IN /\ methodReply' = MethodReply("Forget", "", err = "")
          /\ supp' = IF err = "" THEN [supp EXCEPT !.known = left] ELSE supp
          /\ st' = IF err = ""
                   THEN RefreshKnownNetworksMutator(st, [ok |-> TRUE, known |-> left])
                   ELSE st
    /\ UNCHANGED <<svc, station, sigq, assoc, lifeq>>
    /\ UNCHANGED <<storeVars, subVars, lockVars, scanVars, trafficVars, spawnVars, bootVars, clientVars, iwdVars, connectVars,
                   agentVars, usbVars>>

\* a profile of the supplicant is removed by another client of its bus, or its
\* file is deleted while the supplicant is not running
ProfileRemoved(ssid) ==
    /\ \E i \in DOMAIN supp.known : supp.known[i] = ssid
    /\ supp' = [supp EXCEPT !.known = WithoutProfile(@, ssid)]
    /\ UNCHANGED <<st, lifeq>>
    /\ UNCHANGED <<storeVars, subVars, lockVars, scanVars, trafficVars, spawnVars, facadeVars, bootVars, clientVars, iwdVars, connectVars,
                   agentVars, usbVars>>

-----------------------------------------------------------------------------
(* Specifications *)

\* NewClient before any initialization
InitClientAbsent ==
    /\ initialized = FALSE
    /\ stationPath = ""
    /\ devicePath = ""
    /\ agent = FALSE
    /\ iwdOwner = ""
    /\ propSubs = 0
    /\ tasks = {}
    /\ lifecycleUpdates = 0
    /\ startup = "done"
    /\ subsAtAppear = 0
    /\ supp = [phase |-> "ready", inst |-> 1, known |-> << >>]
    /\ lifeq = << >>
    /\ agentReg = 0

\* the client after maybeInitIWD succeeded once
InitClientReady ==
    /\ initialized = TRUE
    /\ stationPath = "/net/connman/iwd/0/4"
    /\ devicePath = "/net/connman/iwd/0/4"
    /\ agent = TRUE
    /\ iwdOwner = ":1.5"
    /\ propSubs = 1
    /\ tasks = {}
    /\ lifecycleUpdates = 0
    /\ startup = "done"
    /\ subsAtAppear = 0
    /\ supp = [phase |-> "ready", inst |-> 1, known |-> << >>]
    /\ lifeq = << >>
    /\ agentReg = 1

\* no facade call yet, the station idle
InitFacade ==
    /\ svc = [c \in Calls |-> IdleSvc]
    /\ methodReply = NoMethodReply
    /\ station = [state |-> "disconnected", net |-> ""]
    /\ sigq = << >>
    /\ assoc = [c \in Calls |-> "none"]

InitConnect ==
    /\ connectID = 0
    /\ calls = [c \in Calls |-> IdleCall]
    /\ InitFacade

InitSpawn ==
    /\ nFallback = 0
    /\ nDhcp = 0
    /\ nBringUp = 0
    /\ wpc = "run"

InitUsb ==
    /\ fallbacks = {}
    /\ usbLink = NoLink
    /\ nlq = << >>
    /\ InitSpawn

\* State Store: concurrent Update calls, readers and the registration of the callback
InitS ==
    /\ st = NewManager
    /\ InitStore /\ InitClientAbsent /\ InitConnect /\ InitAgent /\ InitTraffic /\ InitScan /\ InitLock /\ InitSub /\ InitUsb

NextStore ==
    \/ SetOnChange
    \/ Get
    \/ \E t \in Tasks, m \in StoreMutators : UpdateLock(t, m)
    \/ \E t \in Tasks : UpdateCopy(t)
    \/ \E t \in Tasks : UpdateCallback(t)

SpecStore == InitS /\ [][NextStore]_vars

\* Credential agent: the supplicant's callbacks, the client's SetPending and
\* ClearPending, and the clock
InitA ==
    /\ st = NewManager
    /\ InitStore /\ InitClientReady /\ InitConnect /\ InitAgent /\ InitTraffic /\ InitScan /\ InitLock /\ InitSub /\ InitUsb

SpecAgent == InitA /\ [][NextAgent]_vars

\* Connect: overlapping calls of the facade, with the station signals that
\* arrive meanwhile
ConnectViews ==
    { v \in IwdViews : /\ v.ok /\ v.unreadable = {} /\ v.known = {}
                       /\ v.connected = "" /\ v.ordered # << >> }

ConnectStationProps ==
    { [State |-> "connecting"], [State |-> "connected"], [State |-> "disconnected"] }

InitC ==
    /\ st = NewManager
    /\ InitStore /\ InitClientReady /\ InitConnect /\ InitAgent /\ InitTraffic /\ InitScan /\ InitLock /\ InitSub /\ InitUsb

NextConnect ==
    \/ \E c \in Calls, a \in ConnectArgs : ConnectBegin(c, a)
    \/ \E c \in Calls, e \in BOOLEAN, v1 \in ConnectViews : ConnectScan(c, e, v1, v1)
    \/ \E c \in Calls : ConnectSetSSID(c)
    \/ \E c \in Calls, err \in {"", "Operation failed"} : ConnectReturn(c, err)
    \/ \E props \in ConnectStationProps :
          HandleStationChange(props, CHOOSE v \in ConnectViews : TRUE)

SpecConnect == InitC /\ [][NextConnect]_vars

\* Supplicant lifecycle: the service appears and vanishes, its Station and
\* Device signals, the detached fetches and the facade's Disconnect
LifecycleViews ==
    { v \in IwdViews : /\ v.unreadable = {} /\ v.known = {}
                       /\ v.connected \in {"", "/net/B"}
                       /\ (~v.ok => v.ordered = << >> /\ v.connected = "") }

StationProps ==
    { [State |-> "connecting"], [State |-> "disconnected"],
      [State |-> "connected", ConnectedNetwork |-> "/net/B"],
      [State |-> "roaming"],
      [Scanning |-> TRUE], [Scanning |-> FALSE] }

InitI ==
    /\ st = NewManager
    /\ InitStore /\ InitClientAbsent /\ InitConnect /\ InitAgent /\ InitTraffic /\ InitScan /\ InitLock /\ InitSub /\ InitUsb

NextIwd ==
    \/ \E objs \in ManagedObjects, v \in LifecycleViews : NameOwnerAppeared(objs, v)
    \/ \E objs \in ManagedObjects, v \in LifecycleViews : InterfacesAdded(objs, v)
    \/ NameOwnerVanished
    \/ \E v \in LifecycleViews : InitFetch(v)
    \/ \E objs \in ManagedObjects, v \in LifecycleViews : RefreshAfterConnected(objs, v)
    \/ \E props \in StationProps, v \in LifecycleViews : HandleStationChange(props, v)
    \/ \E props \in DeviceChangeProps : HandleDeviceChange(props)
    \/ \E err \in BOOLEAN : ServiceDisconnect(err)

SpecIwd == InitI /\ [][NextIwd]_vars

\* USB tethering: the kernel's link and address events, the Watcher, the
\* fallback started when the station disconnects, and the release
UsbStationProps == { [State |-> "connected"], [State |-> "disconnected"] }

InitU ==
    /\ st = NewManager
    /\ InitStore /\ InitClientReady /\ InitConnect /\ InitAgent /\ InitTraffic /\ InitScan /\ InitLock /\ InitSub /\ InitUsb

NextUsb ==
    \/ KernelPlug
    \/ \E on, up \in BOOLEAN : KernelCarrier(on, up)
    \/ KernelUnplug
    \/ HandleLinkMessage
    \/ \E route \in BOOLEAN : RunDHCPOnInterface(route)
    \/ HandleAddressMessage
    \/ \E props \in UsbStationProps :
          HandleStationChange(props, CHOOSE v \in ConnectViews : TRUE)
    \/ \E f \in fallbacks : FallbackUp(f)
    \/ \E f \in fallbacks, ok, route \in BOOLEAN : FallbackDhcp(f, ok, route)
    \/ \E f \in fallbacks : FallbackUpdate(f)
    \/ ServiceReleaseUsbNetwork
    \/ ReleaseUsbDone

SpecUsb == InitU /\ [][NextUsb]_vars

\* USB fallback: SpecUsb with the station's reports counted and Service.Disconnect
TetherStationProps ==
    { [State |-> "connected"], [State |-> "connecting"], [State |-> "disconnected"] }

TetherView == CHOOSE v \in ConnectViews : TRUE

NextTether ==
    \/ KernelPlug
    \/ \E on, up \in BOOLEAN : KernelCarrier(on, up)
    \/ KernelUnplug
    \/ HandleLinkMessage
    \/ \E route \in BOOLEAN : RunDHCPOnInterface(route)
    \/ HandleAddressMessage
    \/ \E props \in TetherStationProps : HandleStationChangeCounted(props, TetherView)
    \/ \E f \in fallbacks : FallbackUp(f)
    \/ \E f \in fallbacks, ok, route \in BOOLEAN : FallbackDhcp(f, ok, route)
    \/ \E f \in fallbacks : FallbackUpdate(f)
    \/ \E err \in BOOLEAN : ServiceDisconnect(err)

SpecTether == InitU /\ [][NextTether]_vars

\* One Client.Connect with every combination of password, requested security
\* and hidden flag, to a psk, an open, an 802.1x and an unlisted network
CredentialArgs ==
    [ ssid : {"A", "B", "E", "H"}, password : {"", "secret"},
      security : {"psk", "sae", "open", "8021x"}, hidden : BOOLEAN ]

CredentialView ==
    [ ok |-> TRUE,
      ordered |-> << [Path |-> "/net/A", RSSI |-> -4000],
                     [Path |-> "/net/B", RSSI |-> -7550],
                     [Path |-> "/net/E", RSSI |-> -6000] >>,
      connected |-> "", known |-> {}, unreadable |-> {} ]

NextCredential ==
    \/ \E a \in CredentialArgs : ClientConnectBegin(1, a)
    \/ \E e \in BOOLEAN : ConnectScan(1, e, CredentialView, CredentialView)
    \/ ConnectSetSSID(1)
    \/ \E err \in {"", "Operation failed"} : ConnectReturn(1, err)

SpecCredential == InitC /\ [][NextCredential]_vars

\* The Watcher alone: its startup and any sequence of link and address
\* messages about the loopback, a Wi-Fi, an Ethernet and a USB interface; the
\* USB interface may be renamed (same index) or plugged in again (new index)
WatcherLinks ==
    { [name |-> "lo", index |-> 1], [name |-> "wlan0", index |-> 2],
      [name |-> "eth0", index |-> 5], [name |-> "usb0", index |-> 3],
      [name |-> "usb1", index |-> 3], [name |-> "usb0", index |-> 4] }

\* operational state and carrier of a link: down, carrier but not yet up, up
LinkStates == { <<FALSE, FALSE>>, <<FALSE, TRUE>>, <<TRUE, TRUE>> }

LinkRecord(l, ls) ==
    [name |-> l.name, index |-> l.index, isUp |-> ls[1], hasCarrier |-> ls[2]]

WatcherLinkMsgs ==
    { [type |-> "NEWLINK", name |-> l.name, index |-> l.index,
       isUp |-> ls[1], hasCarrier |-> ls[2], ip |-> ""] : l \in WatcherLinks, ls \in LinkStates }
    \cup
    { [type |-> "DELLINK", name |-> l.name, index |-> l.index,
       isUp |-> FALSE, hasCarrier |-> FALSE, ip |-> ""] : l \in WatcherLinks }

\* the address a DHCP server of the link's network hands out
AddressOn(index) ==
    IF index = 1 THEN "127.0.0.1" ELSE IF index \in {3, 4} THEN UsbAddress ELSE "192.168.1.5"

WatcherAddrMsgs ==
    { [type |-> t, name |-> "", index |-> l.index,
       isUp |-> FALSE, hasCarrier |-> FALSE, ip |-> AddressOn(l.index)] :
         t \in {"NEWADDR", "DELADDR"}, l \in WatcherLinks }

\* what Link.List can say about an index: one of its names, "" when it is gone
NamesOfIndex(i) == { l.name : l \in { k \in WatcherLinks : k.index = i } } \cup {""}

\* Link.List at startup: lo, then the Wi-Fi interface and one USB interface
\* when they exist
StartupLinks ==
    { <<LinkRecord([name |-> "lo", index |-> 1], <<TRUE, TRUE>>)>> \o w \o u :
        w \in {<< >>} \cup { <<LinkRecord([name |-> "wlan0", index |-> 2], ls)>> : ls \in LinkStates },
        u \in {<< >>} \cup { <<LinkRecord([name |-> "usb0", index |-> 3], ls)>> : ls \in LinkStates } }

\* an address message with what the kernel answers while it is handled: the
\* name Link.List has for the index, whether a default route leaves through
\* the interface, the gateway of the first default route. Answers the handler
\* does not ask for (after an early return, the route for a non-USB name) are
\* left at their zero value; a route through the interface is a default route.
WatcherAddrInputs ==
    { i \in WatcherAddrMsgs \X {"", "lo", "wlan0", "eth0", "usb0", "usb1"}
             \X BOOLEAN \X {"", "192.168.1.1"} :
        /\ i[2] \in NamesOfIndex(i[1].index)
        /\ i[1].type = "DELADDR" => i[2] = ""
        /\ i[2] \in {"", "lo"} => ~i[3] /\ i[4] = ""
        /\ ~isUsbInterface(i[2]) => ~i[3]
        /\ i[3] => i[4] # "" }

\* the link messages that set the scene for the address messages
AddressLinkMsgs ==
    { m \in WatcherLinkMsgs :
        /\ m.index # 4
        /\ m.name # "lo"
        /\ m.type = "NEWLINK" => m.hasCarrier /\ m.isUp
        /\ m.type = "DELLINK" => m.name = "usb0" }

WatcherStationProps == { [State |-> "connecting"], [State |-> "disconnected"] }

InitW ==
    /\ st = NewManager
    /\ InitStore /\ InitClientReady /\ InitConnect /\ InitAgent /\ InitTraffic /\ InitScan /\ InitLock /\ InitSub
    /\ fallbacks = {}
    /\ usbLink = NoLink
    /\ nlq = << >>
    /\ nFallback = 0
    /\ nDhcp = 0
    /\ nBringUp = 0
    /\ wpc = "start"

NextWatcher ==
    \/ \E links \in StartupLinks : FetchInterfaces(links)
    \/ \E ip \in {"", "192.168.1.5"} : FetchAddresses(ip)
    \/ \E msg \in WatcherLinkMsgs : WatchLink(msg)

SpecWatcher == InitW /\ [][NextWatcher]_vars

\* The Watcher's address messages, with the station's reports beside them
NextAddress ==
    \/ \E msg \in AddressLinkMsgs : WatchLinkUncounted(msg)
    \/ \E i \in WatcherAddrInputs : WatchAddr(i[1], i[2], i[3], i[4])
    \/ \E props \in WatcherStationProps : HandleStationChange(props, TetherView)

SpecAddress == InitU /\ [][NextAddress]_vars

\* Traffic sampler: the Monitor alone on one interface that has counted
\* bytes before the daemon starts. The counters are kept modulo
\* CounterModulus; their offsets keep them off zero, where a 64-bit counter
\* that has counted does not come back to in any run.
TrafficBytes == {0, 64, 128}
CounterStarts == {32, 96}

InitT ==
    /\ st = NewManager
    /\ InitStore /\ InitClientReady /\ InitConnect /\ InitAgent /\ InitScan /\ InitLock /\ InitSub /\ InitUsb
    /\ rx \in CounterStarts
    /\ tx \in CounterStarts
    /\ lastRx = 0
    /\ lastTx = 0
    /\ idleEmitted = FALSE
    /\ quiet = FALSE
    /\ sampleLog = NoSample

Ticks == \E found \in {"", "wlan0"}, dRx, dTx \in TrafficBytes : Sample(found, dRx, dTx)

NextTraffic ==
    \/ Ticks
    \/ GoQuiet

SpecTraffic == InitT /\ [][NextTraffic]_vars

\* the ticker of Monitor.Run fires every second
SpecTrafficLive == InitT /\ [][NextTraffic]_vars /\ WF_vars(Ticks)

\* Counters: the Wi-Fi interface is known, a phone is tethered on usb0 with a
\* lease, Wi-Fi is connected or not. Within a run no 64-bit counter wraps by
\* counting, so a sample never moves a counter past CounterModulus.
InitCounters ==
    /\ \E cs \in {StateConnected, StateDisconnected} :
          st = [NewManager EXCEPT !.WifiEnabled = TRUE, !.InterfaceName = "wlan0",
                                  !.ConnectionState = cs,
                                  !.UsbInterfaceDetected = TRUE,
                                  !.UsbInterfaceName = "usb0",
                                  !.UsbTetheringAvailable = TRUE,
                                  !.UsbTetheringConnected = TRUE]
    /\ InitStore /\ InitClientReady /\ InitConnect /\ InitAgent /\ InitScan /\ InitLock /\ InitSub /\ InitUsb
    /\ rx \in CounterStarts
    /\ tx \in CounterStarts
    /\ lastRx = 0
    /\ lastTx = 0
    /\ idleEmitted = FALSE
    /\ quiet = FALSE
    /\ sampleLog = NoSample

NextCounters ==
    \/ \E dRx, dTx \in TrafficBytes :
          /\ rx + dRx < CounterModulus
          /\ tx + dTx < CounterModulus
          /\ Sample("", dRx, dTx)
    \/ \E rx0, tx0 \in CounterStarts : CountersReset(rx0, tx0)

SpecCounters == InitCounters /\ [][NextCounters]_vars

\* Client.Scan: one call, the supplicant's Scanning reports at any moment
\* (or never), and what GetOrderedNetworks answers: an error, nothing, three
\* networks, or one network whose properties cannot be read
ScanViews ==
    { [CredentialView EXCEPT !.ok = FALSE],
      [CredentialView EXCEPT !.ordered = << >>],
      CredentialView,
      [CredentialView EXCEPT !.ordered = << [Path |-> "/net/B", RSSI |-> -7550] >>,
                             !.unreadable = {"/net/B"}] }

InitN ==
    /\ st = NewManager
    /\ InitStore /\ InitClientReady /\ InitConnect /\ InitAgent /\ InitTraffic /\ InitScan /\ InitLock /\ InitSub /\ InitUsb

\* the steps of the goroutine that called Scan
ScanSteps ==
    \/ \E reply \in {"ok", "busy", "failed"} : ScanCall(reply)
    \/ ScanListen
    \/ \E woke \in {"signal", "timeout"} : ScanWake(woke)
    \/ \E view \in ScanViews : ScanFetch(view)
    \/ \E view \in ScanViews : ScanRetry(view)
    \/ ScanPublish

NextScan ==
    \/ ScanSteps
    \/ \E scanning \in BOOLEAN : StationScanningSignal(scanning)
    \/ ScanListener
    \/ ScanTick

SpecScan == InitN /\ [][NextScan]_vars

\* the goroutine of Scan is scheduled, its bus calls return, and time passes;
\* nothing obliges the supplicant to report or the listener to be scheduled
SpecScanLive == InitN /\ [][NextScan]_vars /\ WF_vars(ScanSteps) /\ WF_vars(ScanTick)

\* Lock: the property goroutine and the Watcher, whose mutators make calls of
\* their own, next to another producer that sets the airplane mode once
LockStationProps ==
    { [State |-> "connected", ConnectedNetwork |-> "/net/A"],
      [ConnectedNetwork |-> ""],
      [State |-> "disconnected", Scanning |-> FALSE] }

LockViews ==
    { CredentialView, [CredentialView EXCEPT !.unreadable = {"/net/A"}] }

LockAddrInputs ==
    { <<[type |-> "NEWADDR", name |-> "", index |-> 3,
         isUp |-> FALSE, hasCarrier |-> FALSE, ip |-> AddressOn(3)], "usb0">>,
      <<[type |-> "NEWADDR", name |-> "", index |-> 2,
         isUp |-> FALSE, hasCarrier |-> FALSE, ip |-> AddressOn(2)], "wlan0">> }

LockLinkMsgs ==
    { [type |-> "NEWLINK", name |-> "usb0", index |-> 3,
       isUp |-> TRUE, hasCarrier |-> TRUE, ip |-> ""],
      [type |-> "NEWLINK", name |-> "wlan0", index |-> 2,
       isUp |-> TRUE, hasCarrier |-> TRUE, ip |-> ""] }

NextLock ==
    \/ \E props \in LockStationProps : StationChangeLock(props)
    \/ \E view \in LockViews : StationChangeReply(view)
    \/ StationChangeUnlock(CredentialView)
    \/ \E a \in LockAddrInputs : AddressLock(a[1], a[2])
    \/ \E viaRoute \in BOOLEAN : AddressReply(viaRoute)
    \/ AddressUnlock(UsbGateway)
    \/ \E msg \in LockLinkMsgs : mu = 0 /\ WatchLinkUncounted(msg)
    \/ updates = << >> /\ UpdateLock(2, [kind |-> "airplane", arg |-> TRUE])
    \/ UpdateCopy(2)
    \/ UpdateCallback(2)

SpecLock == InitU /\ [][NextLock]_vars

\* Subscriptions: the supplicant restarts, the client initializes again, and
\* the station reports an association that fails
SubscribeObjects == { o \in ManagedObjects : o.hasStation /\ o.known = << >> }

SubscribeStationProps == { [State |-> "connecting"], [State |-> "disconnected"] }

InitP ==
    /\ st = NewManager
    /\ InitStore /\ InitClientReady /\ InitConnect /\ InitAgent /\ InitTraffic /\ InitScan /\ InitLock /\ InitSub /\ InitUsb

NextSubscribe ==
    \/ NameOwnerVanished
    \/ \E objs \in SubscribeObjects : NameOwnerAppeared(objs, TetherView)
    \/ \E props \in SubscribeStationProps : StationSignal(props)
    \/ \E i \in 1..MaxSubs : PropertyGoroutine(i, TetherView)

SpecSubscribe == InitP /\ [][NextSubscribe]_vars

\* Vanish: the supplicant exits while Station signals are still on the channel
\* of the property goroutine, and a client asks for a connection afterwards
SwitchArgs ==
    { [ssid |-> "A", password |-> "secret", security |-> "psk", hidden |-> FALSE] }

GoneView ==
    [ ok |-> FALSE, ordered |-> << >>, connected |-> "", known |-> {}, unreadable |-> {} ]

VanishView == IF iwdOwner = "" THEN GoneView ELSE TetherView

VanishStationProps ==
    { [State |-> "connecting"], [State |-> "connected"], [State |-> "disconnected"] }

NextVanish ==
    \/ NameOwnerVanished
    \/ \E objs \in SubscribeObjects : NameOwnerAppeared(objs, TetherView)
    \/ \E props \in VanishStationProps : StationSignal(props)
    \/ \E i \in 1..MaxSubs : PropertyGoroutine(i, VanishView)
    \/ \E a \in SwitchArgs : ServiceConnect(1, a)
    \/ ServiceConnectSaved(1, "A")

SpecVanish == InitP /\ [][NextVanish]_vars

\* Switch: the station is connected to B when a client asks for A
InitSwitch ==
    /\ st = [NewManager EXCEPT !.WifiEnabled = TRUE, !.InterfaceName = "wlan0",
                               !.ConnectionState = StateConnected, !.ActiveSSID = "B",
                               !.ActiveSecurity = "open"]
    /\ InitStore /\ InitClientReady /\ InitAgent /\ InitTraffic /\ InitScan /\ InitLock /\ InitSub /\ InitUsb
    /\ connectID = 0
    /\ calls = [c \in Calls |-> IdleCall]
    /\ svc = [c \in Calls |-> IdleSvc]
    /\ methodReply = NoMethodReply
    /\ station = [state |-> "connected", net |-> "/net/B"]
    /\ sigq = << >>
    /\ assoc = [c \in Calls |-> "none"]

NextSwitch ==
    \/ \E a \in SwitchArgs : ServiceConnect(1, a)
    \/ ServiceConnectSaved(1, "A")
    \/ ServiceConnectStart(1)
    \/ ServiceConnectScan(1)
    \/ ConnectSetSSID(1)
    \/ SuppAssocStart(1)
    \/ SuppAskPassphrase(1)
    \/ SuppAssocOk(1)
    \/ SuppAssocFail(1)
    \/ ServiceConnectReturn(1)
    \/ ServiceConnectDone(1)
    \/ SuppLeaves
    \/ DeliverStationSignal

SpecSwitch == InitSwitch /\ [][NextSwitch]_vars

\* Signal scale: every int16 dBm value, measured once
InitSignal ==
    /\ \E d \in Int16 : st = [NewManager EXCEPT !.SignalRSSI = d]
    /\ InitStore /\ InitClientReady /\ InitConnect /\ InitAgent /\ InitTraffic /\ InitScan /\ InitLock /\ InitSub /\ InitUsb

SpecSignal == InitSignal /\ [][MeasureSignal]_vars

\* Start-up: NewClient has started the lifecycle goroutine and is about to make
\* its own maybeInitIWD attempt; the supplicant is running already or not yet
InitB ==
    /\ st = NewManager
    /\ InitStore /\ InitConnect /\ InitAgent /\ InitTraffic /\ InitScan /\ InitLock /\ InitSub /\ InitUsb
    /\ initialized = FALSE
    /\ stationPath = ""
    /\ devicePath = ""
    /\ agent = FALSE
    /\ iwdOwner \in {"", ":1.5"}
    /\ propSubs = 0
    /\ tasks = {}
    /\ lifecycleUpdates = 0
    /\ startup = "check"
    /\ subsAtAppear = 0
    /\ supp = [phase |-> IF iwdOwner = "" THEN "absent" ELSE "ready",
               inst |-> IF iwdOwner = "" THEN 0 ELSE 1, known |-> << >>]
    /\ lifeq = << >>
    /\ agentReg = 0

NextStartup ==
    \/ StartupCheck
    \/ \E objs \in ManagedObjects, v \in LifecycleViews : StartupInit(objs, v)
    \/ \E objs \in ManagedObjects, v \in LifecycleViews : NameOwnerAppeared(objs, v)
    \/ \E objs \in ManagedObjects, v \in LifecycleViews : InterfacesAdded(objs, v)
    \/ NameOwnerVanished
    \/ \E v \in LifecycleViews : InitFetch(v)

SpecStartup == InitB /\ [][NextStartup]_vars

\* Restart: the client is initialized against the first instance of the supplicant;
\* the supplicant exits and starts again; its known networks stay on disk
InitR ==
    /\ InitStore /\ InitConnect /\ InitAgent /\ InitTraffic /\ InitScan /\ InitLock /\ InitSub /\ InitUsb
    /\ initialized = TRUE
    /\ stationPath = IwdPath
    /\ devicePath = IwdPath
    /\ agent = TRUE
    /\ iwdOwner = ":1.5"
    /\ propSubs = 1
    /\ tasks = {}
    /\ lifecycleUpdates = 0
    /\ startup = "done"
    /\ subsAtAppear = 0
    /\ agentReg = 1
    /\ lifeq = << >>
    /\ \E k \in {<< >>, <<"B">>} : supp = [phase |-> "ready", inst |-> 1, known |-> k]
    /\ LET s1 == findDevice(NewManager, CHOOSE o \in SuppObjects : TRUE, SuppView).st
       IN st = [s1 EXCEPT !.Networks = fetchNetworksFromIWD(SuppView, s1.ActiveSSID).list]

RestartStationProps ==
    { [Scanning |-> TRUE], [Scanning |-> FALSE],
      [State |-> "connecting"], [State |-> "disconnected"] }

NextRestart ==
    \/ SuppExit
    \/ SuppStart
    \/ SuppStation
    \/ \E objs \in SuppObjects : LifecycleSignal(objs, SuppView)
    \/ InitFetch(SuppView)
    \/ \E props \in RestartStationProps : HandleStationChange(props, SuppView)
    \/ \E props \in DeviceChangeProps : HandleDeviceChange(props)

\* the lifecycle goroutine keeps reading its channel; the detached fetch of
\* maybeInitIWD runs after its 100 ms
FairRestart ==
    /\ WF_vars(\E objs \in SuppObjects : LifecycleSignal(objs, SuppView))
    /\ WF_vars(InitFetch(SuppView))

SpecRestart == InitR /\ [][NextRestart]_vars /\ FairRestart

\* Saved set: the client is initialized against a supplicant with or without a
\* known network; profiles are forgotten through the facade or removed
\* otherwise, the station connects, the supplicant restarts
NextSaved ==
    \/ SuppExit
    \/ SuppStart
    \/ SuppStation
    \/ \E objs \in SuppObjects : LifecycleSignal(objs, SuppView)
    \/ InitFetch(SuppView)
    \/ /\ supp.phase = "ready" /\ supp.known # << >>
       /\ HandleStationChange([State |-> "connected"], SuppView)
    \/ \E objs \in SuppObjects : RefreshAfterConnected(objs, SuppView)
    \/ ServiceForget("B")
    \/ ProfileRemoved("B")

SpecSaved == InitR /\ [][NextSaved]_vars

\* The facade with no supplicant on the bus: NewClient succeeded, its
\* initialization found nothing
InitAbsent ==
    /\ st = NewManager
    /\ InitStore /\ InitConnect /\ InitAgent /\ InitTraffic /\ InitScan /\ InitLock /\ InitSub /\ InitUsb
    /\ initialized = FALSE
    /\ stationPath = ""
    /\ devicePath = ""
    /\ agent = FALSE
    /\ iwdOwner = ""
    /\ propSubs = 0
    /\ tasks = {}
    /\ lifecycleUpdates = 0
    /\ startup = "done"
    /\ subsAtAppear = 0
    /\ agentReg = 0
    /\ supp = [phase |-> "absent", inst |-> 0, known |-> << >>]
    /\ lifeq = << >>

FacadeArgs ==
    { [ssid |-> "A", password |-> "secret", security |-> "psk", hidden |-> FALSE],
      [ssid |-> "A", password |-> "hunter2", security |-> "psk", hidden |-> FALSE] }

NextAbsent ==
    \/ \E enabled \in BOOLEAN : ServiceEnableWifi(enabled)
    \/ ServiceScan
    \/ ServiceScanDone
    \/ \E c \in Calls, a \in FacadeArgs : ServiceConnect(c, a)
    \/ \E c \in Calls : ServiceConnectSaved(c, "B")
    \/ \E c \in Calls : ServiceConnectStart(c)
    \/ \E c \in Calls : ServiceConnectScan(c)
    \/ \E c \in Calls : ServiceConnectDone(c)
    \/ FacadeDisconnect
    \/ ServiceStartHotspot("spot")
    \/ ServiceStopHotspot

SpecAbsent == InitAbsent /\ [][NextAbsent]_vars

\* The facade with the supplicant running: connect requests, the association in
\* the supplicant, its Station signals, the Agent
InitF ==
    /\ st = [NewManager EXCEPT !.WifiEnabled = TRUE, !.InterfaceName = "wlan0"]
    /\ InitStore /\ InitClientReady /\ InitConnect /\ InitAgent /\ InitTraffic /\ InitScan /\ InitLock /\ InitSub /\ InitUsb

NextFacade ==
    \/ \E c \in Calls, a \in FacadeArgs : ServiceConnect(c, a)
    \/ \E c \in Calls : ServiceConnectSaved(c, "B")
    \/ \E c \in Calls : ServiceConnectStart(c)
    \/ \E c \in Calls : ServiceConnectScan(c)
    \/ \E c \in Calls : ConnectSetSSID(c)
    \/ \E c \in Calls : SuppAssocStart(c)
    \/ \E c \in Calls : SuppAskPassphrase(c)
    \/ \E c \in Calls : SuppAssocOk(c)
    \/ \E c \in Calls : SuppAssocFail(c)
    \/ \E c \in Calls : ServiceConnectReturn(c)
    \/ \E c \in Calls : ServiceConnectDone(c)
    \/ DeliverStationSignal
    \/ RefreshAfterConnected(CHOOSE o \in ManagedObjects : o.hasStation /\ o.known = << >>,
                             StationView)
    \/ FacadeDisconnect

SpecFacade == InitF /\ [][NextFacade]_vars

-----------------------------------------------------------------------------
(* Claims on the State Store *)

\* number of callbacks delivered for Update call k
Deliveries(k) == Cardinality({i \in DOMAIN delivered : delivered[i].seq = k})

\* C1: every Update call whose task read a registered callback delivers exactly one
\* callback, never more, and the snapshot delivered is the state right after that
\* call's own mutator (no later mutation), also when the mutator changed nothing.
C1_ExactlyOneCallback ==
    \A k \in DOMAIN updates :
        /\ Deliveries(k) <= 1
        /\ (updates[k].returned /\ updates[k].cb = "set") => Deliveries(k) = 1
        /\ updates[k].cb # "set" => Deliveries(k) = 0
        /\ \A i \in DOMAIN delivered :
               delivered[i].seq = k => delivered[i].snap = updates[k].after

\* the state before Update call k
Before(k) == IF k = 1 THEN NewManager ELSE updates[k - 1].after

\* C1 witness: a call whose mutator changed nothing has returned with its callback
\* delivered, although a later call had already changed the state and been delivered.
C1_Witness ==
    \E i, j \in DOMAIN delivered :
        /\ i < j
        /\ delivered[j].seq < delivered[i].seq
        /\ updates[delivered[j].seq].returned
        /\ updates[delivered[j].seq].after = Before(delivered[j].seq)
        /\ updates[delivered[i].seq].after # updates[delivered[j].seq].after

\* C2: callbacks reach the subscriber in the order in which the write lock
\* serialized the mutations (the published sequence never steps back).
C2_CallbacksInLockOrder ==
    \A i, j \in DOMAIN delivered : i < j => delivered[i].seq < delivered[j].seq

-----------------------------------------------------------------------------
(* Claims on the credential Agent *)

\* C5: RequestPassphrase answers with the stored password only when an entry
\* exists for the path and is at most CredentialTTL old, and otherwise with the
\* Cancelled error; either way no entry for the path is left when it returns, so
\* a stored credential is handed out at most once.
C5_PassphraseOnceWithinTTL ==
    /\ agentLog.op = "RequestPassphrase" =>
          /\ agentLog.path \notin DOMAIN pending
          /\ IF agentLog.had /\ agentLog.age <= CredentialTTL
             THEN agentLog.reply = [password |-> agentLog.password, error |-> ""]
             ELSE agentLog.reply = [password |-> "", error |-> Cancelled]
    /\ \A n \in NetPaths : nReturned[n] <= nStored[n]

\* C5 witness: a credential exactly CredentialTTL old was handed out, the one
\* stored last for its path, and its entry is gone.
C5_Witness ==
    /\ agentLog.op = "RequestPassphrase"
    /\ agentLog.had
    /\ agentLog.age = CredentialTTL
    /\ agentLog.reply.password = agentLog.password
    /\ agentLog.reply.error = ""
    /\ nStored[agentLog.path] = 2
    /\ nReturned[agentLog.path] = 1
    /\ agentLog.path \notin DOMAIN pending

\* C6: Cancel and Release leave the pending map empty, whatever the reason, and
\* a RequestPassphrase that follows with no SetPending in between fails with the
\* Cancelled error.
C6_CancelReleaseFlush ==
    /\ agentLog.op \in {"Cancel", "Release"} => pending = EmptyMap
    /\ agentLog.afterFlush => pending = EmptyMap
    /\ (agentLog.op = "RequestPassphrase" /\ agentLog.afterFlush) =>
          agentLog.reply = [password |-> "", error |-> Cancelled]

\* C6 witness: credentials were stored for both paths, none was handed out, no
\* time has passed, and a RequestPassphrase after the flush was refused.
C6_Witness ==
    /\ agentLog.op = "RequestPassphrase"
    /\ agentLog.afterFlush
    /\ agentLog.reply.error = Cancelled
    /\ now = 0
    /\ \A n \in NetPaths : nStored[n] = 1 /\ nReturned[n] = 0

-----------------------------------------------------------------------------
(* Claims on Client.Connect *)

\* the calls that have taken a generation
Started == {c \in Calls : calls[c].myConnectID # 0}

\* call c clears ConnectingSSID in this step
Clears(c) == ~calls[c].cleared /\ calls'[c].cleared

\* call c sets ConnectingSSID in this step
Sets(c) == ~calls[c].didSet /\ calls'[c].didSet

\* C3: the generation counter never decreases, no two Connect calls hold the same
\* generation, and a call holding generation G never clears ConnectingSSID once a
\* call holding a later generation has set it.
C3_StaleNeverClears ==
    /\ [](\A c, d \in Started : c # d => calls[c].myConnectID # calls[d].myConnectID)
    /\ [][ /\ connectID' >= connectID
           /\ \A c \in Calls :
                 Clears(c) =>
                    ~\E d \in Calls : /\ calls[d].myConnectID > calls[c].myConnectID
                                      /\ calls[d].didSet ]_vars

\* C3 witness: a call returned without clearing, after a call of a later
\* generation had set ConnectingSSID, which still shows the later call's SSID.
C3_Witness ==
    \E c, d \in Calls :
        /\ calls[c].pc = "done" /\ calls[c].didSet /\ ~calls[c].cleared
        /\ calls[d].myConnectID > calls[c].myConnectID
        /\ calls[d].pc = "assoc"
        /\ st.ConnectingSSID = calls[d].ssid
        /\ calls[d].ssid # calls[c].ssid

\* C4: a Connect call that is stale (a later generation exists) writes
\* ConnectingSSID not at all: it neither sets nor clears it.
C4_StaleNeverWrites ==
    [][ \A c \in Started :
           connectID > calls[c].myConnectID => ~Sets(c) /\ ~Clears(c) ]_vars

-----------------------------------------------------------------------------
(* Claims on the supplicant's lifecycle and the Wi-Fi fields *)

\* C7: the step in which the supplicant's owner goes from non-empty to empty
\* makes exactly one store update, after which the state is disconnected with
\* Wi-Fi off, not scanning, no active SSID and signal strength 0, and the
\* client is uninitialized with empty station and device paths.
C7_DisappearSafeSnapshot ==
    [][ (iwdOwner # "" /\ iwdOwner' = "") =>
           /\ lifecycleUpdates' = 1
           /\ st'.ConnectionState = StateDisconnected
           /\ st'.WifiEnabled = FALSE
           /\ st'.WifiScanning = FALSE
           /\ st'.ActiveSSID = ""
           /\ st'.SignalStrength = 0
           /\ initialized' = FALSE
           /\ stationPath' = ""
           /\ devicePath' = "" ]_vars

\* C7 witness: the supplicant vanished while the client was connected to B and
\* scanning; what the disappearance does not touch still shows the connection.
C7_Witness ==
    /\ iwdOwner = ""
    /\ lifecycleUpdates = 1
    /\ ~initialized
    /\ propSubs > 0
    /\ st.ActiveSecurity = TypeOf("/net/B")
    /\ st.SignalRSSI = -75
    /\ st.ActiveSSID = ""
    /\ st.ConnectionState = StateDisconnected
    /\ ~st.WifiEnabled /\ ~st.WifiScanning

\* C8: in every state that Get or a callback can show, SignalStrength is
\* DBmToPercent of SignalRSSI.
C8_StrengthFollowsRSSI == st.SignalStrength = DBmToPercent(st.SignalRSSI)

\* C9: in every state, a network of the list is marked Connected exactly when
\* its SSID is the non-empty ActiveSSID.
C9_ConnectedIffActive ==
    \A i \in DOMAIN st.Networks :
        st.Networks[i].Connected <=>
            (st.Networks[i].SSID = st.ActiveSSID /\ st.ActiveSSID # "")

-----------------------------------------------------------------------------
(* Claims on USB tethering *)

\* C10: in every state, UsbTetheringConnected implies UsbTetheringAvailable,
\* UsbInterfaceDetected and a non-empty IpAddress.
C10_ConnectedImpliesReady ==
    st.UsbTetheringConnected =>
        /\ st.UsbTetheringAvailable
        /\ st.UsbInterfaceDetected
        /\ st.IpAddress # ""

-----------------------------------------------------------------------------
(* Claims on the signal scale *)

\* the scale as the claim states it
ClampAndScale(d) == IF d <= -100 THEN 0 ELSE IF d >= -50 THEN 100 ELSE 2 * (d + 100)

\* C16: for every int16 d, DBmToPercent(d) is 0 when d <= -100, 100 when
\* d >= -50 and 2*(d+100) otherwise; it lies in 0..100 and does not decrease
\* when d grows; a measured SignalStrength is that value.
C16_DBmToPercentClamp ==
    LET d == st.SignalRSSI IN
    /\ DBmToPercent(d) = ClampAndScale(d)
    /\ DBmToPercent(d) \in 0..100
    /\ d > -32768 => DBmToPercent(d - 1) <= DBmToPercent(d)
    /\ st.SignalStrength # 0 => st.SignalStrength = ClampAndScale(d)

\* C16 witness: -51 dBm, the last value below the upper clamp, measured as 98 %.
C16_Witness == st.SignalRSSI = -51 /\ st.SignalStrength = 98


\* the State values the supplicant's Station reports
StationStates == {"connected", "roaming", "connecting", "disconnected", "disconnecting"}

\* C20: a station State report maps connected and roaming to connected, connecting
\* to connecting, and disconnected to disconnected, except that disconnected
\* arriving while the connection state is connecting, and only then, yields failed
\* with last_error "Authentication failed"; every disconnected report clears
\* active_ssid and connecting_ssid
C20_StationStateMapping ==
    \A v \in StationStates :
        LET s2 == StationStateMutator(st, [State |-> v])
            auth == st.ConnectionState = StateConnecting
        IN /\ v \in {"connected", "roaming"} => s2.ConnectionState = StateConnected
           /\ v = "connecting" => s2.ConnectionState = StateConnecting
           /\ v = "disconnected" =>
                /\ auth => s2.ConnectionState = StateFailed
                           /\ s2.LastError = "Authentication failed"
                /\ ~auth => s2.ConnectionState = StateDisconnected
                            /\ s2.LastError = st.LastError
                /\ s2.ActiveSSID = "" /\ s2.ConnectingSSID = ""

C20_Witness ==
    /\ st.ConnectionState = StateFailed
    /\ st.LastError = "Authentication failed"
    /\ st.ActiveSSID = "" /\ st.ConnectingSSID = ""
    /\ initialized

\* runs of the body of maybeInitIWD since the owner of the supplicant's name last
\* changed
InitsThisPresence == propSubs - subsAtAppear

\* C19: during one continuous presence of the supplicant, whatever triggers fire
\* (the start-up attempt, a NameOwnerChanged appearance, InterfacesAdded), the body
\* of the initialization (subscription, agent, initialized) runs at most once
C19_InitAtMostOncePerPresence == InitsThisPresence <= 1

\* the client serves instance i of the supplicant: initialized with the station
\* path, its agent registered with that instance, the lists read from it
Restored(i) ==
    /\ initialized
    /\ stationPath = IwdPath
    /\ agent
    /\ agentReg = i
    /\ "initfetch" \notin tasks
    /\ st.Networks = fetchNetworksFromIWD(SuppView, st.ActiveSSID).list
    /\ st.SavedNetworks = supp.known

C15_NotificationCarriesAll ==
    \A i \in 1..Len(delivered) :
        DOMAIN emitPropertiesChanged(delivered[i].snap) = DOMAIN GetAll(delivered[i].snap)

\* the Wi-Fi methods of the facade
WifiMethods ==
    {"EnableWifi", "Scan", "Connect", "ConnectSaved", "Disconnect", "StartHotspot",
     "StopHotspot"}

\* C14: while the supplicant is absent, every Wi-Fi method of the facade fails with
\* a descriptive bus error, and the snapshot keeps the safe defaults: not
\* connecting, active_ssid empty, wifi_enabled false
C14_AbsentMethodsFail ==
    /\ methodReply.method \in WifiMethods => methodReply.busError # ""
    /\ st.ConnectionState # StateConnecting
    /\ st.ActiveSSID = ""
    /\ ~st.WifiEnabled

\* exactly one facade call was made, Service.Connect to the psk network A with the
\* given password, from the disconnected state, and no Disconnect after it
OnlyConnect(password) ==
    /\ svc[1].method = "Connect"
    /\ svc[1].args.ssid = "A"
    /\ svc[1].args.password = password
    /\ svc[2].pc = "idle"
    /\ methodReply.method = "Connect"

\* nothing of call 1 is left to run: its goroutine ended, every Station signal
\* was handled
Settled ==
    /\ svc[1].pc = "done"
    /\ sigq = << >>
    /\ "refresh" \notin tasks

\* C11: Connect with a wrong password from disconnected, the Station going
\* connecting -> disconnected and the association call returning an error: in
\* every ordering the final snapshot has connection_state failed, last_error
\* "Authentication failed", connecting_ssid and active_ssid empty
C11_AuthFailureFinal ==
    (OnlyConnect("hunter2") /\ Settled /\ assoc[1] = "failed") =>
        /\ st.ConnectionState = StateFailed
        /\ st.LastError = "Authentication failed"
        /\ st.ConnectingSSID = ""
        /\ st.ActiveSSID = ""

\* C12: active_ssid is non-empty only while connection_state is connected,
\* obtaining or connecting; never while disconnected or failed
C12_ActiveOnlyWhileUp ==
    st.ActiveSSID # "" =>
        st.ConnectionState \in {StateConnected, StateObtaining, StateConnecting}

\* C13: whenever a Connect call writes connecting_ssid, connection_state is
\* connecting in the snapshot it leaves
C13_ConnectingWhenSet ==
    [][ \A c \in Calls : Sets(c) => /\ st'.ConnectingSSID # ""
                                    /\ st'.ConnectionState = StateConnecting ]_vars

\* C17: a fresh psk connect to A with the right passphrase.  The write of Connect
\* shows connecting_ssid = A; the Agent answers exactly one RequestPassphrase, with
\* "secret", and keeps no pending entry; once the Station reported connected with
\* ConnectedNetwork A and the call ended, the snapshot has active_ssid A,
\* connection_state connected and no last_error
C17_FreshPskConnect ==
    OnlyConnect("secret") =>
        /\ calls[1].pc = "assoc" /\ assoc[1] = "none" => st.ConnectingSSID = "A"
        /\ nReturned["/net/A"] <= 1
        /\ assoc[1] \in {"keyed", "ok"} =>
              /\ nReturned["/net/A"] = 1
              /\ pending = EmptyMap
        /\ assoc[1] # "failed"
        /\ Settled =>
              /\ assoc[1] = "ok"
              /\ st.ActiveSSID = "A"
              /\ st.ConnectionState = StateConnected
              /\ st.LastError = ""
              /\ st.ConnectingSSID = ""
              /\ nReturned["/net/A"] = 1
              /\ pending = EmptyMap

C17_Witness ==
    /\ OnlyConnect("secret") /\ Settled
    /\ st.ActiveSSID = "A" /\ st.ConnectionState = StateConnected
    /\ agentLog.op = "RequestPassphrase" /\ agentLog.reply.password = "secret"

-----------------------------------------------------------------------------
(* Claims on the USB fallback and the Watcher *)

\* C21: a station report starts tryUsbFallback exactly when it says
\* disconnected, the ConnectionState before it was connected and
\* UsbTetheringAvailable is true; the fallback is then only started: the
\* handler's Update is done (disconnected, UsbTetheringConnected untouched)
\* while the goroutine is still before its bring-up.
C21_FallbackAfterConnectedAsync ==
    [][ \A props \in TetherStationProps :
          HandleStationChangeCounted(props, TetherView) =>
            /\ nFallback' \in {nFallback, nFallback + 1}
            /\ (nFallback' = nFallback + 1) <=>
                  /\ props.State = "disconnected"
                  /\ st.ConnectionState = StateConnected
                  /\ st.UsbTetheringAvailable
            /\ nFallback' = nFallback + 1 =>
                  /\ [iface |-> st.UsbInterfaceName, pc |-> "up"] \in fallbacks'
                  /\ st'.ConnectionState = StateDisconnected
                  /\ st'.UsbTetheringConnected = st.UsbTetheringConnected ]_vars

\* the handler has returned and the snapshot shows disconnected while the
\* fallback it started has not yet brought the interface up
C21_Witness ==
    /\ nFallback > 0
    /\ st.ConnectionState = StateDisconnected
    /\ \E f \in fallbacks : f.pc = "up"

\* the security classes that take a passphrase
PassphraseClass(security) == security \in {"psk", "sae"}

\* C22: when Connect has resolved the network and is about to write
\* ConnectingSSID, the Agent holds a pending credential for the network
\* path exactly when the password is non-empty and the security requested by
\* the caller or reported by the supplicant is PSK or SAE.
C22_PendingIffPassphraseClass ==
    calls[1].pc = "set" =>
        (calls[1].netPath \in DOMAIN pending <=>
            /\ calls[1].password # ""
            /\ \/ PassphraseClass(calls[1].security)
               \/ calls[1].netPath # "" /\ PassphraseClass(TypeOf(calls[1].netPath)))

\* C23: a step of the Watcher on RTM_DELLINK either clears the five USB
\* fields, when the message's index is UsbInterfaceIndex, or changes no field
\* of the snapshot, when it is not; the name in the message plays no part.
C23_DelLinkByIndex ==
    [][ \A msg \in WatcherLinkMsgs :
          msg.type = "DELLINK" /\ WatchLink(msg) =>
            st' = IF msg.index = st.UsbInterfaceIndex
                  THEN [st EXCEPT !.UsbInterfaceDetected = FALSE,
                                  !.UsbTetheringAvailable = FALSE,
                                  !.UsbTetheringConnected = FALSE,
                                  !.UsbInterfaceName = "",
                                  !.UsbInterfaceIndex = 0]
                  ELSE st ]_vars

\* a USB interface that had carrier has been removed and the fields are cleared
C23_Witness ==
    /\ nDhcp > 0
    /\ ~st.UsbInterfaceDetected
    /\ st.UsbInterfaceName = ""
    /\ st.UsbInterfaceIndex = 0

\* UsbTetheringAvailable goes from false to true in the step
AvailableEdge == ~st.UsbTetheringAvailable /\ st'.UsbTetheringAvailable

\* C24: DHCP is started once in exactly the steps in which
\* UsbTetheringAvailable goes from false to true, so a repeated carrier-up
\* message starts none; bringUpInterface is started in exactly those of
\* these steps whose link message (or startup entry) is not operationally up.
C24_DhcpOncePerEdge ==
    [][ /\ nDhcp' = IF AvailableEdge THEN nDhcp + 1 ELSE nDhcp
        /\ \A msg \in WatcherLinkMsgs :
             WatchLink(msg) =>
               nBringUp' = IF AvailableEdge /\ ~msg.isUp THEN nBringUp + 1 ELSE nBringUp
        /\ \A links \in StartupLinks :
             FetchInterfaces(links) =>
               nBringUp' = IF AvailableEdge /\ Len(DownCarrierLinks(links)) > 0
                           THEN nBringUp + 1 ELSE nBringUp ]_vars

\* DHCP was started on an edge, the interface is still available, and a second
\* edge (after carrier loss or removal) started it again
C24_Witness ==
    /\ nDhcp = 2
    /\ nBringUp = 1
    /\ st.UsbTetheringAvailable

\* the interface of an address message is the USB interface the store tracks
TrackedUsb(ifaceName) == isUsbInterface(ifaceName) /\ st.UsbInterfaceName = ifaceName

\* C25: RTM_NEWADDR on the tracked USB interface sets IpAddress; it sets
\* UsbTetheringConnected and ConnectionType = usb when a default route through
\* the interface exists, and leaves both as they were when there is none.
C25_UsbAddressNeedsRoute ==
    [][ \A i \in WatcherAddrInputs :
          /\ i[1].type = "NEWADDR"
          /\ TrackedUsb(i[2])
          /\ WatchAddr(i[1], i[2], i[3], i[4])
          => /\ st'.IpAddress = i[1].ip
             /\ i[3] => st'.UsbTetheringConnected /\ st'.ConnectionType = "usb"
             /\ ~i[3] => /\ st'.UsbTetheringConnected = st.UsbTetheringConnected
                         /\ st'.ConnectionType = st.ConnectionType ]_vars

\* the address handler has seen the route: connected over USB with the address
C25_Witness ==
    /\ st.UsbTetheringConnected
    /\ st.ConnectionType = "usb"
    /\ st.IpAddress = UsbAddress
    /\ st.UsbTetheringAvailable

-----------------------------------------------------------------------------
(* Claims on the traffic sampler *)

\* C27: the sampler calls Update with the deltas only when one of them is
\* above 100 bytes, and with (0, 0) only when an active update came before it
\* and no other (0, 0) update since that active update.
C27_ZeroOnlyOnceAfterActive ==
    /\ sampleLog.kind = "active" =>
          sampleLog.deltaRx > minDeltaBytes \/ sampleLog.deltaTx > minDeltaBytes
    /\ sampleLog.kind = "zero" =>
          /\ sampleLog.activeBefore
          /\ sampleLog.zerosBefore = 0

\* C28: once an active update is in the snapshot and the traffic has gone
\* quiet (every later sample has both deltas at or below 100 bytes), a later
\* snapshot has TrafficIn = 0 and TrafficOut = 0.
C28_EventuallyZero ==
    (quiet /\ (st.TrafficIn # 0 \/ st.TrafficOut # 0))
        ~> (st.TrafficIn = 0 /\ st.TrafficOut = 0)

-----------------------------------------------------------------------------
(* Claims on Client.Scan *)

\* C29: Client.Scan always returns. It leaves its wait only when the listener
\* has received Scanning = false or the 15 s deadline has passed, a Busy reply
\* of the Scan call is not returned as an error, and a Scan that has been
\* called reaches its return, also when no completion signal is delivered or
\* the signal came before the listener was registered.
C29_ScanAlwaysReturns ==
    /\ [][(scan.pc = "wait" /\ scan'.pc # "wait")
             => (scan.heard \/ scan.clock = ScanTimeout)]_vars
    /\ [](scan.pc = "done" /\ scan.reply = "busy" => scan.err = "")
    /\ (scan.pc # "idle") ~> (scan.pc = "done")

C29_Witness ==
    /\ scan.pc = "done"
    /\ scan.reply = "busy"
    /\ scan.woke = "timeout"
    /\ scan.missed
    /\ ~scan.heard

\* C30: Scan reads the ordered networks a second time exactly when the first
\* read gave an empty list, never a third time, and the list it publishes is
\* the one of the second read then, and the one of the first read otherwise.
C30_RetryOnceWhenEmpty ==
    /\ [](scan.reads <= 2)
    /\ [](scan.pc \in {"publish", "done"} /\ scan.reads > 0
             => (scan.reads = 2 <=> Len(scan.first.list) = 0))
    /\ [][(scan.pc = "publish" /\ scan'.pc = "done")
             => LET last == IF Len(scan.first.list) = 0 THEN scan.second ELSE scan.first
                IN st'.Networks = IF last.ok THEN last.list ELSE st.Networks]_vars

C30_Witness ==
    /\ scan.pc = "done"
    /\ scan.reads = 2
    /\ Len(scan.first.list) = 0
    /\ Len(scan.second.list) = 3
    /\ st.Networks = scan.second.list

-----------------------------------------------------------------------------
(* Claims of the last part: lock, lifecycle, saved set, traffic, USB *)

\* C31: while the write lock of the store is held no call to the supplicant
\* and no routing request to the kernel is in flight.
C31_NoCallUnderLock == mu # 0 => lk.call = ""

\* C32: once every Connect call has returned, ConnectingSSID is empty.
C32_NoConnectingAfterReturn ==
    (\A c \in Calls : calls[c].pc = "done") => st.ConnectingSSID = ""

\* C33: every Station signal of the supplicant is applied to the state exactly
\* once, whatever number of times the supplicant has restarted: never a
\* second run of handleStationChange for the same signal.
C33_AppliedOnce == \A k \in DOMAIN applied : applied[k] <= 1

\* C34: the snapshot reads failed with "Authentication failed" only if the
\* station has reported State = connecting (the supplicant has started an
\* association) before it reported disconnected.
C34_AuthFailureNeedsConnecting ==
    (st.ConnectionState = StateFailed /\ st.LastError = "Authentication failed")
        => \E c \in Calls : assoc[c] # "none"

\* C35: from the disappearance of the supplicant until it reappears, no
\* snapshot has wifi_enabled = true or connection_state connecting or connected
C35_SanitizedWhileAbsent ==
    iwdOwner = ""
        => /\ ~st.WifiEnabled
           /\ st.ConnectionState \notin {StateConnecting, StateConnected}

\* C36: an initialization that finds no Station (the attempt made when the
\* supplicant takes its name, the client staying uninitialized) has no effect:
\* both paths stay empty and interface_name, mac_address, wifi_enabled and
\* saved_networks keep their values.
C36_FailedInitNoEffect ==
    [][ (iwdOwner = "" /\ iwdOwner' # "" /\ ~initialized')
            => /\ stationPath' = "" /\ devicePath' = ""
               /\ st'.InterfaceName = st.InterfaceName
               /\ st'.MacAddress = st.MacAddress
               /\ st'.WifiEnabled = st.WifiEnabled
               /\ st'.SavedNetworks = st.SavedNetworks ]_vars

\* a step that refreshes the saved set from a supplicant that answers: a
\* successful initialization, refreshKnownNetworks after "connected", a
\* successful Forget
SavedRefreshed ==
    \/ ~initialized /\ initialized'
    \/ "refresh" \in tasks /\ "refresh" \notin tasks' /\ supp.phase = "ready"
    \/ methodReply'.method = "Forget" /\ methodReply'.ok /\ supp' # supp

\* C37: after every refresh of the saved set, saved_networks is exactly the
\* list of the supplicant's known networks, the empty list included.
C37_SavedIsKnown ==
    [][ SavedRefreshed => st'.SavedNetworks = supp'.known ]_vars

\* a run of sample() that got past its early returns
Sampled == lastRx' # lastRx \/ lastTx' # lastTx \/ idleEmitted' # idleEmitted

\* C38: a sample changes no field of the snapshot but traffic_in and
\* traffic_out, whichever interface it read.
C38_SampleWritesOnlyTraffic ==
    [][ Sampled => st' = [st EXCEPT !.TrafficIn = st'.TrafficIn,
                                    !.TrafficOut = st'.TrafficOut] ]_vars

\* C39: no published delta comes from a counter that reads lower than the
\* value stored by the previous sample.
C39_NoWrappedDelta ==
    [][ (Sampled /\ sampleLog'.kind = "active") => (rx' >= lastRx /\ tx' >= lastTx) ]_vars

\* C40: whenever the snapshot reads connection_type = usb, USB tethering is
\* connected.
C40_UsbTypeMeansConnected ==
    st.ConnectionType = "usb" => st.UsbTetheringConnected

====
